---- MODULE Spec2Model ----
(***************************************************************************)
(* A model of the go-bloomd client: the connection pool it draws from, the *)
(* asynchronous dispatch of one command (caller and worker goroutine       *)
(* racing on a result channel and a deadline), the bounded write retry of  *)
(* send, and the line/block framing of recv.                               *)
(*                                                                         *)
(* The client is the one of src/bloomd.go lines 419-852.  The pool is the  *)
(* channel pool of gopkg.in/fatih/pool.v2 that NewClient builds: a         *)
(* buffered channel of capacity maxConnections holding the idle            *)
(* connections.  Get takes an idle connection if there is one and dials a  *)
(* new one otherwise; closing a PoolConn stores the connection back unless *)
(* it was marked unusable, the pool is closed or the channel is full, in   *)
(* which cases the connection is closed; Close of the pool closes the idle *)
(* connections and makes every later Get fail.                             *)
(***************************************************************************)
EXTENDS Integers, Sequences, FiniteSets, TLC

\* ------------------------------------------------------------- bounds
NumCmds == 2       \* command slots that can be in flight together
MaxIssued == 3     \* commands issued in one run
MaxDials == 3      \* connections the daemon accepts in one run
MaxPool == 2       \* largest maxConnections configured
MaxAtt == 2        \* largest maxAttempts configured
MaxLines == 4      \* lines the daemon sends on the stream read by recv
MinAtt == 1        \* send is called with maxAttempts from -MinAtt upwards
MaxKeys == 3       \* keys given to Bulk and Multi
MaxInfoLines == 2  \* lines of an info block
MaxRows == 2       \* rows of a filter list

Cmds == 1..NumCmds
ConnIds == 1..MaxDials
NoConn == 0

VARIABLES
    cfg,            \* the options of the client (immutable after NewClient)
    conns,          \* each connection: "new", "open", or closed and by what
    idle,           \* the pool's channel of idle connections
    poolClosed,     \* the pool's channel is nil (pool.Close was called)
    cpc,            \* caller of sendCommand: "idle", "waiting", "returned"
    wpc,            \* worker goroutine: "none","get","send","recv","close","deliver","done"
    conn,           \* sendCommand's variable conn, shared by caller and worker
    unusable,       \* the unusable flag of the PoolConn the worker got
    wrote,          \* a w.Write of send put the command on the connection
    werr,           \* the worker's result
    ch,             \* the result channel (capacity 1)
    ret,            \* what sendCommand returned to its caller
    ctx,            \* the context the caller selects on
    rel,            \* what conn.Close did with the connection
    afterShutdown,  \* the command was issued after Shutdown had returned
    issued,         \* commands issued so far
    sMax,           \* send: its argument maxAttempts
    sCmd,           \* send: its argument cmd
    sOuts,          \* send: whether the k-th w.Write on the connection succeeds
    sPc,            \* send: "off", "call", "done"
    sRes,           \* send: what the call returned and did
    rIn,            \* recv: the bytes not yet read from the connection
    rStream,        \* recv: the lines the daemon sent
    rBldr,          \* recv: the strings.Builder
    rPc,            \* recv: "off", "first", "block", "done"
    rOut,           \* recv: the returned string
    rErr,           \* recv: the returned error is non-nil
    rEof,           \* recv: the connection fails once its bytes are read (else it blocks)
    pOp,            \* operation: the public operation called
    pKeys,          \* operation: the number of keys it was given
    pResp,          \* operation: what sendCommand returns for it
    pSent,          \* operation: the calls of sendCommand it made
    pPc,            \* operation: "off", "call", "reply", "done"
    pRes,           \* operation: what it returned
    eOp,            \* encoder: the public operation whose command line is built
    eName,          \* encoder: the filter name (or prefix) argument
    eKeys,          \* encoder: the keys argument
    eHash,          \* encoder: the client's hashKeys
    eCreate,        \* encoder: capacity, probability and inMemory of CreateWithParams
    eLine,          \* encoder: the command line handed to sendCommand
    ePc,            \* encoder: "off", "call", "built", "rejected"
    dFilters,       \* session: the daemon's filters, each absent or a set of keys
    dHash,          \* session: the client's hashKeys
    dCall,          \* session: the last call of the client and what it returned
    dPrev,          \* session: the call before it
    dSet,           \* session: per filter, the keys the client has set since it was dropped
    dN,             \* session: calls made so far
    oDefault,       \* NewClient: the package variable defaultOptions
    oCopy,          \* NewClient: the options object allocated by evaluateOptions
    oPtr,           \* NewClient: the object evaluateOptions' pointer optCopy refers to
    oRest,          \* NewClient: the options not yet applied
    oGiven,         \* NewClient: the options the call was given
    nPc,            \* NewClient: "off", "idle", "eval", "fill", "built", "failed"
    nConns,         \* NewClient: the connections dialled by NewChannelPool, "open" or "closed"
    nChan,          \* NewClient: the pool's channel of idle connections
    nDialFailed,    \* NewClient: a dial of the factory failed
    nClients,       \* NewClient: the clients constructed so far
    nStarted,       \* NewClient: calls of NewClient so far
    xFilters,       \* wire: the daemon's filters
    xHash,          \* wire: the client's hashKeys
    xLine,          \* wire: the command line of the current call of sendCommand
    xN,             \* wire: calls of sendCommand so far; the current call's number
    xConn,          \* wire: the pool's one connection: "none", "pooled", "held", "closed"
    xIn,            \* wire: the daemon's bytes not yet read from the connection
    xBy,            \* wire: for each of these bytes, the call whose command it answers
    xUnus,          \* wire: the unusable flag of the PoolConn the worker got
    xPc,            \* wire: the worker: "none", "get", "send", "recv", "close", "done"
    xCpc,           \* wire: the caller: "idle", "waiting", "returned"
    xRead,          \* wire: the calls whose reply bytes this call's recv has read
    xResp,          \* wire: the worker's line and err
    xRet,           \* wire: what sendCommand returned to its caller
    xOp,            \* wire: the public operation that called sendCommand
    xRes            \* wire: what that operation returned

poolVars == <<conns, idle, poolClosed>>
cmdVars == <<cpc, wpc, conn, unusable, wrote, werr, ch, ret, ctx, rel, afterShutdown,
             issued>>
sendVars == <<sMax, sCmd, sOuts, sPc, sRes>>
recvVars == <<rIn, rStream, rBldr, rPc, rOut, rErr, rEof>>
opVars == <<pOp, pKeys, pResp, pSent, pPc, pRes>>
encVars == <<eOp, eName, eKeys, eHash, eCreate, eLine, ePc>>
dmnVars == <<dFilters, dHash, dCall, dPrev, dSet, dN>>
newVars == <<oDefault, oCopy, oPtr, oRest, oGiven, nPc, nConns, nChan, nDialFailed, nClients,
             nStarted>>
wireVars == <<xFilters, xHash, xLine, xN, xConn, xIn, xBy, xUnus, xPc, xCpc, xRead, xResp,
              xRet, xOp, xRes>>
vars == <<cfg, poolVars, cmdVars, sendVars, recvVars, opVars, newVars, dmnVars, encVars,
          wireVars>>

Range(s) == {s[i] : i \in DOMAIN s}

\* ------------------------------------------------------------- pool
IsClosed(k) == conns[k] \notin {"new", "open"}

\* channelPool.Get: ErrClosed on a closed pool, else an idle connection, else the factory
PoolGetIgnoreClosed(closed, idleq) == IF idleq # <<>> THEN "take" ELSE "dial"
PoolGet(closed, idleq) ==
    IF closed THEN "ErrClosed" ELSE IF idleq # <<>> THEN "take" ELSE "dial"

\* the channel receive of Get removes the connection from the channel
ReceivePeek(idleq) == idleq
Receive(idleq) == Tail(idleq)

\* channelPool.put: store unless the pool is closed or the channel is full
putIntoClosed(closed, idleq, maxc) ==
    IF Len(idleq) < maxc THEN "pooled" ELSE "closedPut"
put(closed, idleq, maxc) ==
    IF closed THEN "closedPut" ELSE IF Len(idleq) < maxc THEN "pooled" ELSE "closedPut"

\* PoolConn.Close: close an unusable connection, put back any other
PoolConnCloseAlways(unus, closed, idleq, maxc) == "closedUnusable"
PoolConnClose(unus, closed, idleq, maxc) ==
    IF unus THEN "closedUnusable" ELSE put(closed, idleq, maxc)

\* channelPool.Close: every connection in the channel is closed
CloseIdleLeaveOpen(st, k, idleq) == st
CloseIdle(st, k, idleq) == IF k \in Range(idleq) THEN "closedPool" ELSE st

\* the factory: net.Dial gives the next connection, when the daemon accepts one
NewConnIds == {k \in ConnIds : conns[k] = "new"}
NextConnId == CHOOSE k \in NewConnIds : \A j \in NewConnIds : k <= j

\* ------------------------------------------------------------- client
\* checkConnectionError: mark the PoolConn unusable unless conn is nil
checkConnectionErrorNoMark(seen, was) == was
checkConnectionError(seen, was) == IF seen = NoConn THEN was ELSE TRUE

\* context.WithTimeout(ctx, t.timeout): the derived context has a deadline
WithoutTimeout(parent) == [parent |-> parent, deadline |-> FALSE]
WithTimeout(parent) == [parent |-> parent, deadline |-> TRUE]

\* the deferred cancel() of sendCommand releases the context
Released == [parent |-> "background", deadline |-> FALSE]

\* send's loop condition
SendLoopOffByOne(att, maxAttempts) == att <= maxAttempts
SendLoop(att, maxAttempts) == att < maxAttempts

\* errors.Wrap(err, ...) is nil when err is nil
Wrap(e) == IF e THEN "err" ELSE "ok"

\* what the k-th w.Write on a connection does: all the ways MaxAtt + 1 writes can go
WriteOutcomes == [1..(MaxAtt + 1) -> BOOLEAN]

\* send's loop from the state (attempted, err) with the writes made so far in log
RECURSIVE sendLoop(_, _, _, _, _, _)
sendLoop(att, e, log, cmd, maxAttempts, outs) ==
    IF SendLoop(att, maxAttempts)
      THEN LET ok == outs[Len(log) + 1]
               log2 == Append(log, [data |-> cmd \o <<"\n">>, ok |-> ok])
           IN  IF ok
                 THEN [res |-> "ok", attempted |-> att, log |-> log2]
                 ELSE sendLoop(att + 1, TRUE, log2, cmd, maxAttempts, outs)
      ELSE [res |-> Wrap(e), attempted |-> att, log |-> log]

\* send(w, cmd, maxAttempts), the writes on w going as outs says
send(cmd, maxAttempts, outs) == sendLoop(0, FALSE, <<>>, cmd, maxAttempts, outs)

\* a write of the log succeeded
Wrote(log) == \E i \in DOMAIN log : log[i].ok

IOErrors == {"writeErr", "readErr"}
CtxErrors == {"deadline", "canceled"}

\* the command lines used: list, a check and a set
SendCmds == {<<"list">>, <<"c", " ", "f", " ", "k">>, <<"s", " ", "f", " ", "k">>}

\* the state NewClient leaves: initialConnections dialled connections, all idle
ClientInit(maxcs, initcs, maxas) ==
    /\ \E mc \in maxcs, ma \in maxas :
         \E ic \in initcs \cap 0..mc :
            /\ ic <= MaxDials
            /\ cfg = [maxConnections |-> mc, initialConnections |-> ic, maxAttempts |-> ma]
            /\ conns = [k \in ConnIds |-> IF k <= ic THEN "open" ELSE "new"]
            /\ idle = [i \in 1..ic |-> i]
    /\ poolClosed = FALSE
    /\ cpc = [c \in Cmds |-> "idle"]
    /\ wpc = [c \in Cmds |-> "none"]
    /\ conn = [c \in Cmds |-> NoConn]
    /\ unusable = [c \in Cmds |-> FALSE]
    /\ wrote = [c \in Cmds |-> FALSE]
    /\ werr = [c \in Cmds |-> "none"]
    /\ ch = [c \in Cmds |-> "empty"]
    /\ ret = [c \in Cmds |-> "none"]
    /\ ctx = [c \in Cmds |-> Released]
    /\ rel = [c \in Cmds |-> "none"]
    /\ afterShutdown = [c \in Cmds |-> FALSE]
    /\ issued = 0

InitClient == ClientInit(1..MaxPool, 0..MaxPool, 0..MaxAtt)

\* one client, for the runs that exercise send or recv alone
ClientOff == ClientInit({1}, {1}, {1})

SendOff ==
    /\ sMax = 0
    /\ sCmd = <<>>
    /\ sOuts = <<>>
    /\ sPc = "off"
    /\ sRes = [res |-> "none", attempted |-> 0, log |-> <<>>]

RecvOff ==
    /\ rIn = <<>>
    /\ rStream = <<>>
    /\ rBldr = <<>>
    /\ rPc = "off"
    /\ rOut = <<>>
    /\ rErr = FALSE
    /\ rEof = FALSE

\* no public operation of the typed client is under way
OpOff ==
    /\ pOp = "none"
    /\ pKeys = 0
    /\ pResp = [err |-> FALSE, line |-> <<>>]
    /\ pSent = 0
    /\ pPc = "off"
    /\ pRes = [val |-> "none", err |-> [kind |-> "nil", text |-> <<>>]]

\* no command line is being built
EncOff ==
    /\ eOp = "none"
    /\ eName = <<>>
    /\ eKeys = <<>>
    /\ eHash = FALSE
    /\ eCreate = [capacity |-> 0, probability |-> 0, inMemory |-> FALSE]
    /\ eLine = <<>>
    /\ ePc = "off"

\* no session with a daemon
NoCall == [op |-> "none", name |-> <<>>, keys |-> <<>>, fail |-> FALSE, existed |-> FALSE,
           had |-> {}, count |-> 0, res |-> [val |-> "none", err |-> [kind |-> "nil", text |-> <<>>]]]
DmnOff ==
    /\ dFilters = <<>>
    /\ dHash = FALSE
    /\ dCall = NoCall
    /\ dPrev = NoCall
    /\ dSet = <<>>
    /\ dN = 0

\* no command is on the wire
NoResp == [line |-> <<>>, err |-> "none"]
NoRes == [val |-> "none", err |-> [kind |-> "nil", text |-> <<>>]]
WireOff ==
    /\ xFilters = <<>>
    /\ xHash = FALSE
    /\ xLine = <<>>
    /\ xN = 0
    /\ xConn = "none"
    /\ xIn = <<>>
    /\ xBy = <<>>
    /\ xUnus = FALSE
    /\ xPc = "none"
    /\ xCpc = "idle"
    /\ xRead = {}
    /\ xResp = NoResp
    /\ xRet = "none"
    /\ xOp = "none"
    /\ xRes = NoRes

\* the constants and the variable defaultOptions of the options file
defaultInitialConnections == 5
defaultHashKeys == FALSE
defaultMaxAttempts == 3
defaultMaxConnections == 10
defaultTimeout == 10
defaultOptions ==
    [initialConnections |-> defaultInitialConnections, hashKeys |-> defaultHashKeys,
     maxAttempts |-> defaultMaxAttempts, maxConnections |-> defaultMaxConnections,
     timeout |-> defaultTimeout]

\* no client is being constructed
NewOff ==
    /\ oDefault = defaultOptions
    /\ oCopy = defaultOptions
    /\ oPtr = "optCopy"
    /\ oRest = <<>>
    /\ oGiven = <<>>
    /\ nPc = "off"
    /\ nConns = <<>>
    /\ nChan = <<>>
    /\ nDialFailed = FALSE
    /\ nClients = <<>>
    /\ nStarted = 0

Init == InitClient /\ SendOff /\ RecvOff /\ OpOff /\ NewOff /\ DmnOff /\ WireOff /\ EncOff

\* sendCommand up to the select: make the channel, derive the context, start the worker
Issue(c) ==
    /\ issued < MaxIssued
    /\ cpc[c] \in {"idle", "returned"}
    /\ wpc[c] \in {"none", "done"}
    /\ \E parent \in {"background", "cancel"} :
         ctx' = [ctx EXCEPT ![c] = WithTimeout(parent)]
    /\ cpc' = [cpc EXCEPT ![c] = "waiting"]
    /\ wpc' = [wpc EXCEPT ![c] = "get"]
    /\ conn' = [conn EXCEPT ![c] = NoConn]
    /\ unusable' = [unusable EXCEPT ![c] = FALSE]
    /\ wrote' = [wrote EXCEPT ![c] = FALSE]
    /\ werr' = [werr EXCEPT ![c] = "none"]
    /\ ch' = [ch EXCEPT ![c] = "empty"]
    /\ ret' = [ret EXCEPT ![c] = "none"]
    /\ rel' = [rel EXCEPT ![c] = "none"]
    /\ afterShutdown' = [afterShutdown EXCEPT ![c] = poolClosed]
    /\ issued' = issued + 1
    /\ UNCHANGED <<cfg, opVars, newVars, wireVars, dmnVars, encVars, poolVars, sendVars, recvVars>>

\* worker: conn, err = t.pool.Get()
WGet(c) ==
    /\ wpc[c] = "get"
    /\ LET how == PoolGet(poolClosed, idle) IN
         \/ /\ how = "ErrClosed"
            /\ werr' = [werr EXCEPT ![c] = "ErrClosed"]
            /\ wpc' = [wpc EXCEPT ![c] = "deliver"]
            /\ UNCHANGED <<conn, conns, idle>>
         \/ /\ how = "take"
            /\ conn' = [conn EXCEPT ![c] = Head(idle)]
            /\ idle' = Receive(idle)
            /\ wpc' = [wpc EXCEPT ![c] = "send"]
            /\ UNCHANGED <<werr, conns>>
         \/ /\ how = "dial"
            /\ NewConnIds # {}
            /\ conn' = [conn EXCEPT ![c] = NextConnId]
            /\ conns' = [conns EXCEPT ![NextConnId] = "open"]
            /\ wpc' = [wpc EXCEPT ![c] = "send"]
            /\ UNCHANGED <<werr, idle>>
         \/ /\ how = "dial"
            /\ werr' = [werr EXCEPT ![c] = "dialErr"]
            /\ wpc' = [wpc EXCEPT ![c] = "deliver"]
            /\ UNCHANGED <<conn, conns, idle>>
    /\ UNCHANGED <<cfg, opVars, newVars, wireVars, dmnVars, encVars, poolClosed, cpc, unusable, wrote, ch, ret, ctx, rel,
                   afterShutdown, issued, sendVars, recvVars>>

\* worker: err = send(conn, cmd, t.maxAttempts), and checkConnectionError on an error
WSend(c) ==
    /\ wpc[c] = "send"
    /\ \E outs \in WriteOutcomes :
         LET r == send(<<"list">>, cfg.maxAttempts, outs) IN
           /\ wrote' = [wrote EXCEPT ![c] = Wrote(r.log)]
           /\ IF r.res = "err"
                THEN /\ werr' = [werr EXCEPT ![c] = "writeErr"]
                     /\ unusable' = [unusable EXCEPT ![c] = checkConnectionError(conn[c], @)]
                     /\ wpc' = [wpc EXCEPT ![c] = "close"]
                ELSE /\ wpc' = [wpc EXCEPT ![c] = "recv"]
                     /\ UNCHANGED <<werr, unusable>>
    /\ UNCHANGED <<cfg, opVars, newVars, wireVars, dmnVars, encVars, poolVars, cpc, conn, ch, ret, ctx, rel, afterShutdown, issued,
                   sendVars, recvVars>>

\* worker: line, err = recv(conn); the daemon replies only to a command it received
WRecv(c) ==
    /\ wpc[c] = "recv"
    /\ \/ /\ wrote[c]
          /\ werr' = [werr EXCEPT ![c] = "nil"]
          /\ UNCHANGED unusable
       \/ /\ werr' = [werr EXCEPT ![c] = "readErr"]
          /\ unusable' = [unusable EXCEPT ![c] = checkConnectionError(conn[c], @)]
    /\ wpc' = [wpc EXCEPT ![c] = "close"]
    /\ UNCHANGED <<cfg, opVars, newVars, wireVars, dmnVars, encVars, poolVars, cpc, conn, wrote, ch, ret, ctx, rel, afterShutdown,
                   issued, sendVars, recvVars>>

\* worker: the deferred conn.Close()
WClose(c) ==
    /\ wpc[c] = "close"
    /\ LET how == PoolConnClose(unusable[c], poolClosed, idle, cfg.maxConnections) IN
         /\ rel' = [rel EXCEPT ![c] = how]
         /\ IF how = "pooled"
              THEN /\ idle' = Append(idle, conn[c])
                   /\ UNCHANGED conns
              ELSE /\ conns' = [conns EXCEPT ![conn[c]] = how]
                   /\ UNCHANGED idle
    /\ wpc' = [wpc EXCEPT ![c] = "deliver"]
    /\ UNCHANGED <<cfg, opVars, newVars, wireVars, dmnVars, encVars, poolClosed, cpc, conn, unusable, wrote, werr, ch, ret, ctx,
                   afterShutdown, issued, sendVars, recvVars>>

\* errCh := make(chan error, 1): a send proceeds when the buffer is free (on a channel
\* without buffer it would need the caller to be receiving)
CanDeliverUnbuffered(c) == cpc[c] = "waiting"
CanDeliver(c) == ch[c] = "empty"

\* worker: ch <- result; the channel has room for it
WDeliver(c) ==
    /\ wpc[c] = "deliver"
    /\ CanDeliver(c)
    /\ ch' = [ch EXCEPT ![c] = werr[c]]
    /\ wpc' = [wpc EXCEPT ![c] = "done"]
    /\ UNCHANGED <<cfg, opVars, newVars, wireVars, dmnVars, encVars, poolVars, cpc, conn, unusable, wrote, werr, ret, ctx, rel,
                   afterShutdown, issued, sendVars, recvVars>>

\* caller: case err := <-ch
CRecv(c) ==
    /\ cpc[c] = "waiting"
    /\ ch[c] # "empty"
    /\ IF ch[c] = "nil"
         THEN /\ ret' = [ret EXCEPT ![c] = "ok"]
              /\ UNCHANGED unusable
         ELSE /\ ret' = [ret EXCEPT ![c] = ch[c]]
              /\ unusable' = [unusable EXCEPT ![c] = checkConnectionError(conn[c], @)]
    /\ ch' = [ch EXCEPT ![c] = "empty"]
    /\ cpc' = [cpc EXCEPT ![c] = "returned"]
    /\ ctx' = [ctx EXCEPT ![c] = Released]
    /\ UNCHANGED <<cfg, opVars, newVars, wireVars, dmnVars, encVars, poolVars, wpc, conn, wrote, werr, rel, afterShutdown, issued,
                   sendVars, recvVars>>

\* caller: case <-ctx.Done(); conn is read while the worker may be writing it
CtxDone(c, why) ==
    /\ cpc[c] = "waiting"
    /\ ret' = [ret EXCEPT ![c] = why]
    /\ \E seen \in {NoConn, conn[c]} :
         unusable' = [unusable EXCEPT ![c] = checkConnectionError(seen, @)]
    /\ cpc' = [cpc EXCEPT ![c] = "returned"]
    /\ ctx' = [ctx EXCEPT ![c] = Released]
    /\ UNCHANGED <<cfg, opVars, newVars, wireVars, dmnVars, encVars, poolVars, wpc, conn, wrote, werr, ch, rel, afterShutdown, issued,
                   sendVars, recvVars>>

\* the timer of WithTimeout fires
CDeadline(c) == ctx[c].deadline /\ CtxDone(c, "deadline")

\* the caller's own context is cancelled
CCancel(c) == ctx[c].parent = "cancel" /\ CtxDone(c, "canceled")

\* Client.Shutdown: t.pool.Close(), which returns at once on a closed pool
Shutdown ==
    /\ poolClosed' = TRUE
    /\ conns' = [k \in ConnIds |-> IF poolClosed THEN conns[k] ELSE CloseIdle(conns[k], k, idle)]
    /\ idle' = IF poolClosed THEN idle ELSE <<>>
    /\ UNCHANGED <<cfg, opVars, newVars, wireVars, dmnVars, encVars, cmdVars, sendVars, recvVars>>

Next ==
    \/ \E c \in Cmds :
         \/ Issue(c)
         \/ WGet(c)
         \/ WSend(c)
         \/ WRecv(c)
         \/ WClose(c)
         \/ WDeliver(c)
         \/ CRecv(c)
         \/ CDeadline(c)
         \/ CCancel(c)
    \/ Shutdown

Spec == Init /\ [][Next]_vars

\* ------------------------------------------------------------- send alone
InitSend ==
    /\ ClientOff /\ RecvOff /\ OpOff /\ NewOff /\ DmnOff /\ WireOff /\ EncOff
    /\ sMax \in (0 - MinAtt)..MaxAtt
    /\ sCmd \in SendCmds
    /\ sOuts \in WriteOutcomes
    /\ sPc = "call"
    /\ sRes = [res |-> "none", attempted |-> 0, log |-> <<>>]

SendCall ==
    /\ sPc = "call"
    /\ sRes' = send(sCmd, sMax, sOuts)
    /\ sPc' = "done"
    /\ UNCHANGED <<cfg, opVars, newVars, wireVars, dmnVars, encVars, poolVars, cmdVars, sMax, sCmd, sOuts, recvVars>>

NextSend == SendCall

SpecSend == InitSend /\ [][NextSend]_vars

\* ------------------------------------------------------------- recv alone
\* A string is a sequence of atoms: the words "START", "END", "x", "y" and the
\* bytes "\r" and "\n".
RESPONSE_START == "START"
RESPONSE_END == "END"

LineBodies == {<<"x">>, <<"y">>, <<"START">>, <<"END">>, <<"END", "x">>}
Terminators == {<<"\n">>, <<"\r", "\n">>}
Lines == [body : LineBodies, term : Terminators]
Streams == UNION {[1..n -> Lines] : n \in 0..MaxLines}

RECURSIVE Bytes(_)
Bytes(lines) ==
    IF lines = <<>> THEN <<>>
    ELSE Head(lines).body \o Head(lines).term \o Bytes(Tail(lines))

\* strings.HasPrefix(s, marker)
HasPrefix(s, marker) == Len(s) >= 1 /\ s[1] = marker

\* strings.TrimRight(s, "\r\n")
RECURSIVE TrimRight(_)
TrimRight(s) ==
    IF s # <<>> /\ s[Len(s)] \in {"\r", "\n"}
      THEN TrimRight(SubSeq(s, 1, Len(s) - 1))
      ELSE s

\* reader.ReadString('\n'): the bytes up to and including the first "\n"
HasLine(in) == \E i \in DOMAIN in : in[i] = "\n"
FirstNL(in) == CHOOSE i \in DOMAIN in : in[i] = "\n" /\ \A j \in 1..(i - 1) : in[j] # "\n"
ReadString(in) == [txt |-> SubSeq(in, 1, FirstNL(in)), rest |-> SubSeq(in, FirstNL(in) + 1, Len(in))]

\* what the block loop adds to the builder for a line that is not the end marker
BlockAppend(bldr, blockTxt) == bldr \o blockTxt \o <<"\n">>

InitRecv ==
    /\ ClientOff /\ SendOff /\ OpOff /\ NewOff /\ DmnOff /\ WireOff /\ EncOff
    /\ rStream \in Streams
    /\ \E tail \in {<<>>, <<"x">>} : rIn = Bytes(rStream) \o tail
    /\ rEof \in BOOLEAN
    /\ rBldr = <<>>
    /\ rPc = "first"
    /\ rOut = <<>>
    /\ rErr = FALSE

\* what recv returns with the error of a failed ReadString: return "", errors.Wrap(...)
ReadFailurePartial(bldr) == TrimRight(bldr)
ReadFailure(bldr) == <<>>

\* ReadString fails: recv returns "" and the wrapped error
RReadErr ==
    /\ rPc \in {"first", "block"}
    /\ ~HasLine(rIn)
    /\ rEof
    /\ rIn' = <<>>
    /\ rOut' = ReadFailure(rBldr)
    /\ rErr' = TRUE
    /\ rPc' = "done"
    /\ UNCHANGED <<cfg, opVars, newVars, wireVars, dmnVars, encVars, poolVars, cmdVars, sendVars, rStream, rBldr, rEof>>

\* the first ReadString: a start marker opens the block, any other line is the response
RFirst ==
    /\ rPc = "first"
    /\ HasLine(rIn)
    /\ LET r == ReadString(rIn) IN
         /\ rIn' = r.rest
         /\ IF HasPrefix(r.txt, RESPONSE_START)
              THEN /\ rPc' = "block"
                   /\ UNCHANGED <<rBldr, rOut>>
              ELSE /\ rBldr' = r.txt
                   /\ rOut' = TrimRight(r.txt)
                   /\ rPc' = "done"
    /\ UNCHANGED <<cfg, opVars, newVars, wireVars, dmnVars, encVars, poolVars, cmdVars, sendVars, rStream, rErr, rEof>>

\* one pass of the block loop
RBlock ==
    /\ rPc = "block"
    /\ HasLine(rIn)
    /\ LET r == ReadString(rIn) IN
         /\ rIn' = r.rest
         /\ IF HasPrefix(r.txt, RESPONSE_END)
              THEN /\ rOut' = TrimRight(rBldr)
                   /\ rPc' = "done"
                   /\ UNCHANGED rBldr
              ELSE /\ rBldr' = BlockAppend(rBldr, r.txt)
                   /\ UNCHANGED <<rOut, rPc>>
    /\ UNCHANGED <<cfg, opVars, newVars, wireVars, dmnVars, encVars, poolVars, cmdVars, sendVars, rStream, rErr, rEof>>

NextRecv == RReadErr \/ RFirst \/ RBlock

SpecRecv == InitRecv /\ [][NextRecv]_vars

\* ------------------------------------------------------------- parsers
\* A response is a string, a sequence of atoms: words, the byte " " and the byte "\n".
\* A word written as two atoms, as <<"Yes", "x">>, is the word with the prefix "Yes".
RESPONSE_DONE == <<"Done">>
RESPONSE_EXISTS == <<"Exists">>
RESPONSE_DELETE_IN_PROG == <<"Delete", " ", "in", " ", "progress">>
RESPONSE_FILTER_NOT_EXIST == <<"Filter", " ", "does", " ", "not", " ", "exist">>
RESPONSE_FILTER_NOT_PROXIED ==
    <<"Filter", " ", "is", " ", "not", " ", "proxied.", " ", "Close", " ", "it", " ", "first.">>
RESPONSE_YES == "Yes"
RESPONSE_NO == "No"

\* the error values: nil, errors.New(text), errors.Errorf(format, text) and the two
\* package variables of error.go
Nil == [kind |-> "nil", text |-> <<>>]
New(text) == [kind |-> "New", text |-> text]
Unexpected(resp) == [kind |-> "Errorf", text |-> <<"bloomd: unexpected response ">> \o resp]
FilterDoesNotExist == [kind |-> "FilterDoesNotExist", text |-> RESPONSE_FILTER_NOT_EXIST]
DeleteInProgress == [kind |-> "DeleteInProgress", text |-> RESPONSE_DELETE_IN_PROG]

\* strings.Split(s, sep) and strings.SplitN(s, sep, 2)
HasSep(s, sep) == \E i \in DOMAIN s : s[i] = sep
FirstSep(s, sep) == CHOOSE i \in DOMAIN s : s[i] = sep /\ \A j \in 1..(i - 1) : s[j] # sep

RECURSIVE Split(_, _)
Split(s, sep) ==
    IF HasSep(s, sep)
      THEN <<SubSeq(s, 1, FirstSep(s, sep) - 1)>>
           \o Split(SubSeq(s, FirstSep(s, sep) + 1, Len(s)), sep)
      ELSE <<s>>

SplitN2(s, sep) ==
    IF HasSep(s, sep)
      THEN <<SubSeq(s, 1, FirstSep(s, sep) - 1), SubSeq(s, FirstSep(s, sep) + 1, Len(s))>>
      ELSE <<s>>

\* parseBool
parseBoolYesOnly(resp) ==
    IF resp = <<RESPONSE_YES>> THEN [val |-> TRUE, err |-> Nil]
    ELSE [val |-> FALSE, err |-> Nil]
parseBool(resp) ==
    IF resp = <<RESPONSE_YES>> THEN [val |-> TRUE, err |-> Nil]
    ELSE IF resp = <<RESPONSE_NO>> THEN [val |-> FALSE, err |-> Nil]
    ELSE [val |-> FALSE, err |-> New(resp)]

\* parseBoolList: one element for each part of the response split at the spaces
BoolOfPrefix(r) == HasPrefix(r, RESPONSE_YES)
BoolOf(r) == r = <<RESPONSE_YES>>

parseBoolListNoSpecial(n, resp) ==
    IF ~HasPrefix(resp, RESPONSE_YES) /\ ~HasPrefix(resp, RESPONSE_NO)
      THEN [val |-> <<>>, err |-> Unexpected(resp)]
      ELSE [val |-> [i \in DOMAIN Split(resp, " ") |-> BoolOf(Split(resp, " ")[i])],
            err |-> Nil]
parseBoolList(n, resp) ==
    IF resp = RESPONSE_FILTER_NOT_EXIST
      THEN [val |-> <<>>, err |-> FilterDoesNotExist]
    ELSE IF ~HasPrefix(resp, RESPONSE_YES) /\ ~HasPrefix(resp, RESPONSE_NO)
      THEN [val |-> <<>>, err |-> Unexpected(resp)]
      ELSE [val |-> [i \in DOMAIN Split(resp, " ") |-> BoolOf(Split(resp, " ")[i])],
            err |-> Nil]

\* parseConfirmation
parseConfirmationLenient(resp) ==
    IF resp = RESPONSE_DONE \/ resp = RESPONSE_FILTER_NOT_EXIST
      THEN [val |-> "none", err |-> Nil]
      ELSE [val |-> "none", err |-> New(resp)]
parseConfirmation(resp) ==
    IF resp = RESPONSE_DONE THEN [val |-> "none", err |-> Nil]
    ELSE [val |-> "none", err |-> New(resp)]

\* parseDropConfirmation
parseDropConfirmationStrict(resp) ==
    IF resp = RESPONSE_DONE THEN [val |-> "none", err |-> Nil]
    ELSE [val |-> "none", err |-> New(resp)]
parseDropConfirmation(resp) ==
    IF resp = RESPONSE_DONE THEN [val |-> "none", err |-> Nil]
    ELSE IF resp = RESPONSE_FILTER_NOT_EXIST THEN [val |-> "none", err |-> Nil]
    ELSE [val |-> "none", err |-> New(resp)]

\* parseCreate
parseCreateGeneric(resp) ==
    IF resp = RESPONSE_DONE THEN [val |-> "none", err |-> Nil]
    ELSE IF resp = RESPONSE_EXISTS THEN [val |-> "none", err |-> Nil]
    ELSE [val |-> "none", err |-> New(resp)]
parseCreate(resp) ==
    IF resp = RESPONSE_DONE THEN [val |-> "none", err |-> Nil]
    ELSE IF resp = RESPONSE_EXISTS THEN [val |-> "none", err |-> Nil]
    ELSE IF resp = RESPONSE_DELETE_IN_PROG THEN [val |-> "none", err |-> DeleteInProgress]
    ELSE [val |-> "none", err |-> New(resp)]

\* strconv.Atoi and strconv.ParseFloat(_, 32) on the numerals used; a probability is
\* kept in tenths.  Any other text, a text with a space in it too, is no number.
IntValue == [a \in {"1", "2", "3"} |-> IF a = "1" THEN 1 ELSE IF a = "2" THEN 2 ELSE 3]
FloatValue ==
    [a \in {"0.5", "1", "2", "3"} |->
        IF a = "0.5" THEN 5 ELSE IF a = "1" THEN 10 ELSE IF a = "2" THEN 20 ELSE 30]

Atoi(v) ==
    IF Len(v) = 1 /\ v[1] \in DOMAIN IntValue
      THEN [ok |-> TRUE, v |-> IntValue[v[1]]]
      ELSE [ok |-> FALSE, v |-> 0]

ParseFloatIntegral(v) == Atoi(v)
ParseFloat(v) ==
    IF Len(v) = 1 /\ v[1] \in DOMAIN FloatValue
      THEN [ok |-> TRUE, v |-> FloatValue[v[1]]]
      ELSE [ok |-> FALSE, v |-> 0]

\* the map properties of parseInfo: a missing key reads as zero
NoProperties == [k \in {} |-> 0]
PutProperty(m, k, v) == [x \in DOMAIN m \cup {k} |-> IF x = k THEN v ELSE m[x]]
Property(m, k) == IF <<k>> \in DOMAIN m THEN m[<<k>>] ELSE 0

\* BloomFilter{} and VerboseBloomFilter{}
ZeroBloomFilter == [Capacity |-> 0, Name |-> <<>>, Probability |-> 0, Size |-> 0, Storage |-> 0]
ZeroVerboseBloomFilter ==
    [Capacity |-> 0, Name |-> <<>>, Probability |-> 0, Size |-> 0, Storage |-> 0,
     Checks |-> 0, CheckHits |-> 0, CheckMisses |-> 0, PageIns |-> 0, PageOuts |-> 0,
     Sets |-> 0, SetHits |-> 0, SetMisses |-> 0]

\* the VerboseBloomFilter parseInfo assembles after its loop
InfoFilter(name, properties, probability) ==
    [Capacity |-> Property(properties, "capacity"),
     Name |-> name,
     Probability |-> probability,
     Size |-> Property(properties, "size"),
     Storage |-> Property(properties, "storage"),
     Checks |-> Property(properties, "checks"),
     CheckHits |-> Property(properties, "check_hits"),
     CheckMisses |-> Property(properties, "check_misses"),
     PageIns |-> Property(properties, "page_ins"),
     PageOuts |-> Property(properties, "page_outs"),
     Sets |-> Property(properties, "sets"),
     SetHits |-> Property(properties, "set_hits"),
     SetMisses |-> Property(properties, "set_misses")]

\* parseInfo's loop over the lines, from line i on
RECURSIVE infoLoop(_, _, _, _, _, _)
infoLoop(name, resp, lines, i, properties, probability) ==
    IF i > Len(lines)
      THEN [val |-> InfoFilter(name, properties, probability), err |-> Nil]
      ELSE LET split == SplitN2(lines[i], " ") IN
           IF Len(split) # 2
             THEN [val |-> ZeroVerboseBloomFilter, err |-> Unexpected(resp)]
           ELSE IF split[1] = <<"probability">>
             THEN IF ParseFloat(split[2]).ok
                    THEN infoLoop(name, resp, lines, i + 1, properties, ParseFloat(split[2]).v)
                    ELSE [val |-> ZeroVerboseBloomFilter, err |-> Unexpected(resp)]
           ELSE IF Atoi(split[2]).ok
             THEN infoLoop(name, resp, lines, i + 1,
                           PutProperty(properties, split[1], Atoi(split[2]).v), probability)
             ELSE [val |-> ZeroVerboseBloomFilter, err |-> Unexpected(resp)]

parseInfo(name, resp) == infoLoop(name, resp, Split(resp, "\n"), 1, NoProperties, 0)

\* one row of parseFilterList: name probability storage capacity size
parseFilterRowSwapped(parts) ==
    IF Len(parts) # 5 THEN [ok |-> FALSE, filter |-> ZeroBloomFilter]
    ELSE IF ~ParseFloat(parts[2]).ok THEN [ok |-> FALSE, filter |-> ZeroBloomFilter]
    ELSE IF ~Atoi(parts[3]).ok THEN [ok |-> FALSE, filter |-> ZeroBloomFilter]
    ELSE IF ~Atoi(parts[4]).ok THEN [ok |-> FALSE, filter |-> ZeroBloomFilter]
    ELSE IF ~Atoi(parts[5]).ok THEN [ok |-> FALSE, filter |-> ZeroBloomFilter]
    ELSE [ok |-> TRUE,
          filter |-> [Capacity |-> Atoi(parts[3]).v, Name |-> parts[1],
                      Probability |-> ParseFloat(parts[2]).v, Size |-> Atoi(parts[5]).v,
                      Storage |-> Atoi(parts[4]).v]]
parseFilterRow(parts) ==
    IF Len(parts) # 5 THEN [ok |-> FALSE, filter |-> ZeroBloomFilter]
    ELSE IF ~ParseFloat(parts[2]).ok THEN [ok |-> FALSE, filter |-> ZeroBloomFilter]
    ELSE IF ~Atoi(parts[3]).ok THEN [ok |-> FALSE, filter |-> ZeroBloomFilter]
    ELSE IF ~Atoi(parts[4]).ok THEN [ok |-> FALSE, filter |-> ZeroBloomFilter]
    ELSE IF ~Atoi(parts[5]).ok THEN [ok |-> FALSE, filter |-> ZeroBloomFilter]
    ELSE [ok |-> TRUE,
          filter |-> [Capacity |-> Atoi(parts[4]).v, Name |-> parts[1],
                      Probability |-> ParseFloat(parts[2]).v, Size |-> Atoi(parts[5]).v,
                      Storage |-> Atoi(parts[3]).v]]

\* parseFilterList's loop over the lines, from line i on
RECURSIVE listLoop(_, _, _, _)
listLoop(resp, lines, i, results) ==
    IF i > Len(lines)
      THEN [val |-> results, err |-> Nil]
      ELSE LET row == parseFilterRow(Split(lines[i], " ")) IN
           IF row.ok
             THEN listLoop(resp, lines, i + 1, [results EXCEPT ![i] = row.filter])
             ELSE [val |-> <<>>, err |-> Unexpected(resp)]

parseFilterList(resp) ==
    listLoop(resp, Split(resp, "\n"), 1, [i \in DOMAIN Split(resp, "\n") |-> ZeroBloomFilter])

\* ------------------------------------------------------------- operations
\* The public operations of the client that returns typed results: each sends one
\* command with sendCommand and hands the response to its parser.
BoolOps == {"Set", "Check"}
BoolListOps == {"Bulk", "Multi"}
CreateOps == {"CreateWithParams"}
InfoOps == {"Info"}
DropOps == {"Drop"}
ConfirmOps == {"Clear", "Close", "FlushAll", "FlushFilter"}
ListOps == {"ListAll", "ListByPrefix"}
Ops == BoolOps \cup BoolListOps \cup CreateOps \cup InfoOps \cup DropOps \cup ConfirmOps
       \cup ListOps

\* the filter the operations are called for
FilterName == <<"foo">>

\* what an operation returns when sendCommand returned an error
SendCommandErr == [kind |-> "sendCommand", text |-> <<>>]
ZeroOf(op) ==
    IF op \in BoolOps THEN FALSE
    ELSE IF op \in BoolListOps \cup ListOps THEN <<>>
    ELSE IF op \in InfoOps THEN ZeroVerboseBloomFilter
    ELSE "none"

\* the parser each operation returns the result of
ParseForLenient(op, nkeys, resp) ==
    IF op \in BoolOps THEN parseBool(resp)
    ELSE IF op \in BoolListOps THEN parseBoolList(nkeys, resp)
    ELSE IF op \in CreateOps THEN parseCreate(resp)
    ELSE IF op \in InfoOps THEN parseInfo(FilterName, resp)
    ELSE IF op \in ListOps THEN parseFilterList(resp)
    ELSE parseDropConfirmation(resp)
ParseFor(op, nkeys, resp) ==
    IF op \in BoolOps THEN parseBool(resp)
    ELSE IF op \in BoolListOps THEN parseBoolList(nkeys, resp)
    ELSE IF op \in CreateOps THEN parseCreate(resp)
    ELSE IF op \in InfoOps THEN parseInfo(FilterName, resp)
    ELSE IF op \in DropOps THEN parseDropConfirmation(resp)
    ELSE IF op \in ListOps THEN parseFilterList(resp)
    ELSE parseConfirmation(resp)

\* strings.Join(parts, sep)
RECURSIVE JoinWith(_, _)
JoinWith(parts, sep) ==
    IF parts = <<>> THEN <<>>
    ELSE IF Len(parts) = 1 THEN parts[1]
    ELSE parts[1] \o <<sep>> \o JoinWith(Tail(parts), sep)

SeqsUpTo(S, n) == UNION {[1..k -> S] : k \in 0..n}

\* the responses the daemon is made to give: the status lines, near misses of them,
\* answers of several Yes/No and other parts, info blocks and filter lists
StatusResponses ==
    {RESPONSE_DONE, RESPONSE_EXISTS, RESPONSE_DELETE_IN_PROG, RESPONSE_FILTER_NOT_EXIST,
     RESPONSE_FILTER_NOT_PROXIED, <<RESPONSE_YES>>, <<RESPONSE_NO>>,
     <<>>, <<"Done", "x">>, <<"done">>, <<"Wrong", " ", "val">>,
     <<"Filter", " ", "does", " ", "not", " ", "exist", "x">>,
     <<"Delete", " ", "in", " ", "progress", " ">>, <<"Internal", " ", "Error">>}

AnswerParts == {<<RESPONSE_YES>>, <<RESPONSE_NO>>, <<RESPONSE_YES, "x">>, <<"x">>, <<>>}
AnswerResponses == {JoinWith(a, " ") : a \in SeqsUpTo(AnswerParts, MaxKeys + 1)}

InfoKeys ==
    {"capacity", "size", "storage", "checks", "check_hits", "check_misses", "page_ins",
     "page_outs", "sets", "set_hits", "set_misses", "probability", "zzz"}
InfoValues == {<<"1">>, <<"2">>, <<"0.5">>, <<"x">>, <<"1", " ", "2">>}
InfoLines ==
    {<<k, " ">> \o v : k \in InfoKeys, v \in InfoValues} \cup {<<>>, <<"garbage">>}
InfoResponses == {JoinWith(l, "\n") : l \in SeqsUpTo(InfoLines, MaxInfoLines)}

ListRows ==
    {<<n, " ", p, " ", st, " ", c, " ", sz>> :
        n \in {"foo", "bar"}, p \in {"0.5", "1", "x"}, st \in {"1", "x"},
        c \in {"2", "0.5"}, sz \in {"3", "x"}}
    \cup {<<>>, <<"foo", " ", "0.5", " ", "1", " ", "2">>,
          <<"foo", " ", "0.5", " ", "1", " ", "2", " ", "3", " ", "1">>}
ListResponses == {JoinWith(l, "\n") : l \in SeqsUpTo(ListRows, MaxRows)}

ResponsesFor(op) ==
    StatusResponses \cup AnswerResponses
    \cup (IF op \in InfoOps THEN InfoResponses ELSE {})
    \cup (IF op \in ListOps THEN ListResponses ELSE {})

InitOp ==
    /\ ClientOff /\ SendOff /\ RecvOff /\ EncOff /\ DmnOff /\ WireOff /\ NewOff
    /\ pOp \in Ops
    /\ pKeys \in (IF pOp \in BoolListOps THEN 1..MaxKeys ELSE {0})
    /\ \/ pResp = [err |-> TRUE, line |-> <<>>]
       \/ \E r \in ResponsesFor(pOp) : pResp = [err |-> FALSE, line |-> r]
    /\ pSent = 0
    /\ pPc = "call"
    /\ pRes = [val |-> "none", err |-> Nil]

\* resp, err := t.sendCommand(ctx, cmd)
OpSend ==
    /\ pPc = "call"
    /\ pSent' = pSent + 1
    /\ pPc' = "reply"
    /\ UNCHANGED <<cfg, newVars, wireVars, dmnVars, encVars, poolVars, cmdVars, sendVars, recvVars, pOp, pKeys, pResp, pRes>>

\* if err != nil { return zero, err }; return parse(resp)
OpReturn ==
    /\ pPc = "reply"
    /\ pRes' = IF pResp.err
                 THEN [val |-> ZeroOf(pOp), err |-> SendCommandErr]
                 ELSE ParseFor(pOp, pKeys, pResp.line)
    /\ pPc' = "done"
    /\ UNCHANGED <<cfg, newVars, wireVars, dmnVars, encVars, poolVars, cmdVars, sendVars, recvVars, pOp, pKeys, pResp, pSent>>

NextOp == OpSend \/ OpReturn

SpecOp == InitOp /\ [][NextOp]_vars

\* ------------------------------------------------------------- liveness
\* The timer of a context with a deadline fires: a caller is not left in its
\* select for ever once the deadline can be taken.
LiveInit == ClientInit({1}, {0, 1}, {1}) /\ SendOff /\ RecvOff /\ OpOff /\ NewOff /\ DmnOff /\ WireOff /\ EncOff

SpecLive == LiveInit /\ [][Next]_vars /\ \A c \in Cmds : WF_vars(CDeadline(c))

\* The worker goroutine is scheduled and its calls on the pool and the socket return.
WorkInit == ClientOff /\ SendOff /\ RecvOff /\ OpOff /\ NewOff /\ DmnOff /\ WireOff /\ EncOff

SpecWork ==
    /\ WorkInit /\ [][Next]_vars
    /\ \A c \in Cmds :
          /\ WF_vars(WGet(c)) /\ WF_vars(WSend(c)) /\ WF_vars(WRecv(c))
          /\ WF_vars(WClose(c)) /\ WF_vars(WDeliver(c))

\* ------------------------------------------------------------- create
\* CreateWithParams: if probability > 0 && capacity < 1 { return errors.New(...) }
InvalidCreateNever(capacity, probability) == FALSE
InvalidCreate(capacity, probability) == probability > 0 /\ capacity < 1

\* the arguments tried: a capacity below, at and above zero, no probability or one
CreateCapacities == {0 - 1, 0, 1}
CreateProbabilities == {0, 1}

\* CreateWithParams up to its sendCommand: the early return, or the dispatch of the command
CreateWithParams(c, capacity, probability) ==
    IF InvalidCreate(capacity, probability)
      THEN /\ cpc[c] \in {"idle", "returned"}
           /\ wpc[c] \in {"none", "done"}
           /\ cpc' = [cpc EXCEPT ![c] = "returned"]
           /\ ret' = [ret EXCEPT ![c] = "invalidParams"]
           /\ UNCHANGED <<cfg, opVars, newVars, wireVars, dmnVars, encVars, poolVars, wpc, conn, unusable, wrote, werr, ch, ctx,
                          rel, afterShutdown, issued, sendVars, recvVars>>
      ELSE Issue(c)

NextCreate ==
    \/ Next
    \/ \E c \in Cmds, capacity \in CreateCapacities, probability \in CreateProbabilities :
          CreateWithParams(c, capacity, probability)

SpecCreate == LiveInit /\ [][NextCreate]_vars

\* ------------------------------------------------------------- encoder
\* The command line each public operation of the typed client hands to
\* sendCommand (src/unnamed/part_002 lines 465-667).
MaxEncKeys == 2     \* keys given to Bulk and Multi when the line is built
ProbUnit == 10000000  \* a probability p of the model is p / ProbUnit

KeyOps == {"Set", "Check", "Bulk", "Multi"}
NameOps == {"Info", "Drop", "Clear", "Close", "ListByPrefix", "FlushFilter"}
BareOps == {"ListAll", "FlushAll"}
EncCreateOps == {"Create", "CreateWithParams"}
EncOps == KeyOps \cup NameOps \cup BareOps \cup EncCreateOps

\* the command constants
Verb(op) ==
    CASE op = "Set" -> "s"
      [] op = "Bulk" -> "b"
      [] op = "Check" -> "c"
      [] op = "Multi" -> "m"
      [] op = "Info" -> "info"
      [] op = "Drop" -> "drop"
      [] op = "Clear" -> "clear"
      [] op = "Close" -> "close"
      [] op \in {"ListAll", "ListByPrefix"} -> "list"
      [] op \in {"FlushAll", "FlushFilter"} -> "flush"
      [] op \in EncCreateOps -> "create"

\* the caller's strings: plain words, a key with a space, a key with a newline, the empty key
EncKeys == {<<"a">>, <<"b">>, <<"a", " ", "b">>, <<"a", "\n", "b">>, <<>>}
EncNames == {<<"foo">>, <<"a">>}
EncProbabilities == {0, 1, 1000}

\* fmt.Sprintf("%x", h.Sum(nil)) of the SHA-1 of the key: forty hexadecimal digits
Sha1Hex(key) ==
    CASE key = <<"a">> -> "86f7e437faa5a7fce15d1ddcb9eaeaea377667b8"
      [] key = <<"b">> -> "e9d71f5ee7c92d6dc9e92ffdad17b8bd49418f98"
      [] key = <<"a", " ", "b">> -> "7dbde93504122a707f849f2c12bdd9de71b41929"
      [] key = <<"a", "\n", "b">> -> "fcd127ffa1016069006ad91f3f361248f9bdf272"
      [] key = <<>> -> "da39a3ee5e6b4b0d3255bfef95601890afd80709"

\* hashKey: the key the client sends, hashed when the client hashes keys
hashKeyVerbatim(hashKeys, key) == key
hashKey(hashKeys, key) == IF hashKeys THEN <<Sha1Hex(key)>> ELSE key

\* for _, key := range keys { bldr.WriteRune(' '); bldr.WriteString(t.hashKey(key)) }
RECURSIVE writeKeys(_, _, _)
writeKeys(hashKeys, bldr, keys) ==
    IF keys = <<>> THEN bldr
    ELSE writeKeys(hashKeys, bldr \o <<" ">> \o hashKey(hashKeys, Head(keys)), Tail(keys))

buildCommand(hashKeys, cmd, arg, keys) == writeKeys(hashKeys, <<cmd, " ">> \o arg, keys)

\* fmt.Sprintf("%d", capacity)
Sprintf_d(n) == <<ToString(n)>>

\* fmt.Sprintf("%f", probability): the value rounded to six decimals
Sprintf_f(p) ==
    LET micro == (p * 1000000 + ProbUnit \div 2) \div ProbUnit
    IN  <<ToString(micro \div 1000000), ".">>
        \o [i \in 1..6 |-> ToString((micro \div (10 ^ (6 - i))) % 10)]

buildCreateCommandProbFirst(name, capacity, probability, inMemory) ==
    <<"create", " ">> \o name
    \o (IF probability > 0 THEN <<" ", "prob=">> \o Sprintf_f(probability) ELSE <<>>)
    \o (IF capacity > 0 THEN <<" ", "capacity=">> \o Sprintf_d(capacity) ELSE <<>>)
    \o (IF inMemory THEN <<" ", "in_memory=1">> ELSE <<>>)

buildCreateCommand(name, capacity, probability, inMemory) ==
    <<"create", " ">> \o name
    \o (IF capacity > 0 THEN <<" ", "capacity=">> \o Sprintf_d(capacity) ELSE <<>>)
    \o (IF probability > 0 THEN <<" ", "prob=">> \o Sprintf_f(probability) ELSE <<>>)
    \o (IF inMemory THEN <<" ", "in_memory=1">> ELSE <<>>)

\* the arguments CreateWithParams gets: Create passes 0, 0, false
CreateArgs == IF eOp = "Create"
                THEN [capacity |-> 0, probability |-> 0, inMemory |-> FALSE]
                ELSE eCreate

InitEnc ==
    /\ ClientOff /\ SendOff /\ RecvOff /\ OpOff /\ NewOff /\ DmnOff /\ WireOff
    /\ eOp \in EncOps
    /\ eName \in (IF eOp \in BareOps THEN {<<>>} ELSE EncNames)
    /\ eKeys \in (IF eOp \in {"Set", "Check"} THEN [1..1 -> EncKeys]
                  ELSE IF eOp \in {"Bulk", "Multi"} THEN SeqsUpTo(EncKeys, MaxEncKeys)
                  ELSE {<<>>})
    /\ eHash \in BOOLEAN
    /\ eCreate \in (IF eOp = "CreateWithParams"
                      THEN [capacity : CreateCapacities, probability : EncProbabilities,
                            inMemory : BOOLEAN]
                      ELSE {[capacity |-> 0, probability |-> 0, inMemory |-> FALSE]})
    /\ eLine = <<>>
    /\ ePc = "call"

\* cmd := t.buildCommand(verb, name, keys...)
EncCommand ==
    /\ ePc = "call"
    /\ eOp \in KeyOps \cup NameOps
    /\ eLine' = buildCommand(eHash, Verb(eOp), eName, eKeys)
    /\ ePc' = "built"
    /\ UNCHANGED <<cfg, newVars, wireVars, dmnVars, poolVars, cmdVars, sendVars, recvVars, opVars, eOp, eName, eKeys,
                   eHash, eCreate>>

\* ListAll and FlushAll: t.sendCommand(ctx, _LIST), t.sendCommand(ctx, _FLUSH)
EncBare ==
    /\ ePc = "call"
    /\ eOp \in BareOps
    /\ eLine' = <<Verb(eOp)>>
    /\ ePc' = "built"
    /\ UNCHANGED <<cfg, newVars, wireVars, dmnVars, poolVars, cmdVars, sendVars, recvVars, opVars, eOp, eName, eKeys,
                   eHash, eCreate>>

\* Create and CreateWithParams up to their sendCommand
EncCreate ==
    /\ ePc = "call"
    /\ eOp \in EncCreateOps
    /\ IF InvalidCreate(CreateArgs.capacity, CreateArgs.probability)
         THEN eLine' = <<>> /\ ePc' = "rejected"
         ELSE /\ eLine' = buildCreateCommand(eName, CreateArgs.capacity,
                                             CreateArgs.probability, CreateArgs.inMemory)
              /\ ePc' = "built"
    /\ UNCHANGED <<cfg, newVars, wireVars, dmnVars, poolVars, cmdVars, sendVars, recvVars, opVars, eOp, eName, eKeys,
                   eHash, eCreate>>

NextEnc == EncCommand \/ EncBare \/ EncCreate

SpecEnc == InitEnc /\ [][NextEnc]_vars

\* ------------------------------------------------------------- session
\* A client of src/unnamed/part_002 making calls one after the other against a
\* bloomd daemon that keeps exact sets.  The daemon is the other end of the
\* wire protocol: it answers as the repository's tests and parsers expect.
MaxCalls == 2       \* calls of one session

SessNames == {<<"foo">>, <<"bar">>}
ListOrder == <<<<"bar">>, <<"foo">>>>
SessKeys == {<<"a">>, <<"b">>, <<"a", " ", "b">>}
FilterOps == {"Create", "Drop", "Set", "Check", "Bulk", "Multi"}
ListingOps == {"ListAll", "Ping"}

NoFilter == [exists |-> FALSE, keys |-> {}]
EmptyFilter == [exists |-> TRUE, keys |-> {}]

\* one row of the daemon's list block
DaemonRow(name) == name \o <<" ", "0.5", " ", "1", " ", "2", " ", "3", "\n">>

RECURSIVE DaemonRows(_, _)
DaemonRows(filters, i) ==
    IF i > Len(ListOrder) THEN <<>>
    ELSE (IF filters[ListOrder[i]].exists THEN DaemonRow(ListOrder[i]) ELSE <<>>)
         \o DaemonRows(filters, i + 1)

\* b: each key is added in turn and answered Yes when it was new
RECURSIVE DaemonBulk(_, _, _)
DaemonBulk(keys, args, answers) ==
    IF args = <<>> THEN [keys |-> keys, answers |-> answers]
    ELSE DaemonBulk(keys \cup {Head(args)}, Tail(args),
                    Append(answers, IF Head(args) \in keys THEN <<RESPONSE_NO>>
                                                           ELSE <<RESPONSE_YES>>))

\* the daemon reads one request line: its filters afterwards and the reply it writes.
\* s and c take the rest of the line as their key, b and m one key per word.
Daemon(filters, line) ==
    LET toks == Split(line, " ")
        verb == toks[1]
        name == toks[2]
        args == SubSeq(toks, 3, Len(toks))
        rest == JoinWith(args, " ")
        f == filters[name]
        Status(fs, text) == [filters |-> fs, reply |-> text \o <<"\n">>]
        Missing == Status(filters, RESPONSE_FILTER_NOT_EXIST)
    IN  IF verb = <<"list">>
          THEN [filters |-> filters,
                reply |-> <<RESPONSE_START, "\n">> \o DaemonRows(filters, 1)
                          \o <<RESPONSE_END, "\n">>]
        ELSE IF verb = <<"create">>
          THEN IF f.exists THEN Status(filters, RESPONSE_EXISTS)
               ELSE Status([filters EXCEPT ![name] = EmptyFilter], RESPONSE_DONE)
        ELSE IF ~f.exists THEN Missing
        ELSE IF verb = <<"drop">>
          THEN Status([filters EXCEPT ![name] = NoFilter], RESPONSE_DONE)
        ELSE IF verb = <<"s">>
          THEN Status([filters EXCEPT ![name].keys = @ \cup {rest}],
                      IF rest \in f.keys THEN <<RESPONSE_NO>> ELSE <<RESPONSE_YES>>)
        ELSE IF verb = <<"c">>
          THEN Status(filters, IF rest \in f.keys THEN <<RESPONSE_YES>> ELSE <<RESPONSE_NO>>)
        ELSE IF verb = <<"b">>
          THEN LET b == DaemonBulk(f.keys, args, <<>>)
               IN  Status([filters EXCEPT ![name].keys = b.keys], JoinWith(b.answers, " "))
        ELSE Status(filters,
                    JoinWith([i \in DOMAIN args |->
                                 IF args[i] \in f.keys THEN <<RESPONSE_YES>>
                                                       ELSE <<RESPONSE_NO>>], " "))

\* recv of the typed client on a connection that holds a complete reply
RECURSIVE recvBlock(_, _)
recvBlock(in, bldr) ==
    IF HasPrefix(ReadString(in).txt, RESPONSE_END) THEN bldr
    ELSE recvBlock(ReadString(in).rest, bldr \o ReadString(in).txt)

recv(in) ==
    TrimRight(IF HasPrefix(ReadString(in).txt, RESPONSE_START)
                THEN recvBlock(ReadString(in).rest, <<>>)
                ELSE ReadString(in).txt)

\* the command line of each call
SessLine(hashKeys, op, name, keys) ==
    IF op \in ListingOps THEN <<Verb("ListAll")>>
    ELSE IF op = "Create" THEN buildCreateCommand(name, 0, 0, FALSE)
    ELSE buildCommand(hashKeys, Verb(op), name, keys)

\* what each call makes of the response; Ping keeps the error of ListAll only
SessParseDropStrict(op, nkeys, resp) ==
    IF op = "Create" THEN parseCreate(resp)
    ELSE IF op = "Drop" THEN parseConfirmation(resp)
    ELSE IF op = "Ping" THEN [val |-> "none", err |-> parseFilterList(resp).err]
    ELSE ParseFor(op, nkeys, resp)

SessParse(op, nkeys, resp) ==
    IF op = "Create" THEN parseCreate(resp)
    ELSE IF op = "Drop" THEN parseDropConfirmation(resp)
    ELSE IF op = "Ping" THEN [val |-> "none", err |-> parseFilterList(resp).err]
    ELSE ParseFor(op, nkeys, resp)

InitSess ==
    /\ ClientOff /\ SendOff /\ RecvOff /\ OpOff /\ NewOff /\ EncOff /\ WireOff
    /\ dFilters \in [SessNames -> {NoFilter, EmptyFilter}]
    /\ dHash \in BOOLEAN
    /\ dCall = NoCall
    /\ dPrev = NoCall
    /\ dSet = [n \in SessNames |-> {}]
    /\ dN = 0

\* one call: fail is a transport error that keeps the command from the daemon
Called(op, name, keys, fail, had) ==
    LET d == Daemon(dFilters, SessLine(dHash, op, name, keys))
        res == IF fail THEN [val |-> ZeroOf(op), err |-> SendCommandErr]
               ELSE SessParse(op, Len(keys), recv(d.reply))
    IN  /\ dN < MaxCalls
        /\ dN' = dN + 1
        /\ dFilters' = IF fail THEN dFilters ELSE d.filters
        /\ dPrev' = dCall
        /\ dCall' = [op |-> op, name |-> name, keys |-> keys, fail |-> fail,
                     existed |-> (name \in SessNames /\ dFilters[name].exists),
                     had |-> had,
                     count |-> Cardinality({n \in SessNames : dFilters[n].exists}),
                     res |-> res]
        /\ dSet' = IF res.err # Nil \/ op \notin {"Set", "Bulk", "Drop"} THEN dSet
                   ELSE IF op = "Drop" THEN [dSet EXCEPT ![name] = {}]
                   ELSE [dSet EXCEPT ![name] = @ \cup Range(keys)]
        /\ UNCHANGED <<cfg, newVars, wireVars, poolVars, cmdVars, sendVars, recvVars, opVars, encVars, dHash>>

\* Create, Drop, Set, Check, Bulk, Multi of a filter
CallFilter(op, name, keys, fail) ==
    /\ op \in FilterOps
    /\ Len(keys) = (IF op \in {"Create", "Drop"} THEN 0
                    ELSE IF op \in {"Set", "Check"} THEN 1 ELSE Len(keys))
    /\ op \in {"Bulk", "Multi"} => keys # <<>>
    /\ Called(op, name, keys, fail, dSet[name])

\* ListAll and Ping
CallList(op, fail) ==
    /\ op \in ListingOps
    /\ Called(op, <<>>, <<>>, fail, {})

NextSess ==
    \/ \E op \in FilterOps, name \in SessNames, keys \in SeqsUpTo(SessKeys, MaxEncKeys),
          fail \in BOOLEAN : CallFilter(op, name, keys, fail)
    \/ \E op \in ListingOps, fail \in BOOLEAN : CallList(op, fail)

SpecSess == InitSess /\ [][NextSess]_vars

\* ------------------------------------------------------------- construction
\* NewClient: the options are evaluated over a copy of defaultOptions, then
\* NewChannelPool checks the capacities and dials the initial connections.
MaxOpts == 2        \* options given to one NewClient
MaxClients == 2     \* calls of NewClient in one run

\* WithHashKeys, WithInitialConnections, WithMaxAttempts, WithMaxConnections, WithTimeout:
\* each option is the field it assigns and the value (1 for the boolean true, 0 for false)
WithOption(field, value) == [f |-> field, v |-> value]
OptionValue(o) == IF o.f = "hashKeys" THEN o.v = 1 ELSE o.v
OptionSet ==
    {WithOption("hashKeys", 1),
     WithOption("initialConnections", 0 - 1), WithOption("initialConnections", 1),
     WithOption("initialConnections", 2),
     WithOption("maxAttempts", 0),
     WithOption("maxConnections", 0), WithOption("maxConnections", 1),
     WithOption("timeout", 1)}

\* optCopy := &options{}; *optCopy = *defaultOptions
evaluateOptionsShared(defaults) == [ptr |-> "defaultOptions", optCopy |-> defaults]
evaluateOptions(defaults) == [ptr |-> "optCopy", optCopy |-> defaults]

\* the options object the pointer optCopy refers to
Options == IF oPtr = "optCopy" THEN oCopy ELSE oDefault

\* NewChannelPool: if initialCap < 0 || maxCap <= 0 || initialCap > maxCap { return error }
InvalidCapacity(initialCap, maxCap) == initialCap < 0 \/ maxCap <= 0 \/ initialCap > maxCap

\* c.Close() of a pool being filled: every connection in the channel is closed
ClosePoolLeaveOpen(cs, chan) == cs
ClosePool(cs, chan) == [i \in DOMAIN cs |-> IF i \in Range(chan) THEN "closed" ELSE cs[i]]

InitNew ==
    /\ ClientOff /\ SendOff /\ RecvOff /\ OpOff /\ DmnOff /\ WireOff /\ EncOff
    /\ oDefault = defaultOptions
    /\ oCopy = defaultOptions
    /\ oPtr = "optCopy"
    /\ oRest = <<>>
    /\ oGiven = <<>>
    /\ nPc = "idle"
    /\ nConns = <<>>
    /\ nChan = <<>>
    /\ nDialFailed = FALSE
    /\ nClients = <<>>
    /\ nStarted = 0

\* NewClient(hostname, opts...): o := evaluateOptions(opts), up to its loop
NewClientCall(opts) ==
    /\ nPc \in {"idle", "built", "failed"}
    /\ nStarted < MaxClients
    /\ nStarted' = nStarted + 1
    /\ oGiven' = opts
    /\ oRest' = opts
    /\ oPtr' = evaluateOptions(oDefault).ptr
    /\ oCopy' = evaluateOptions(oDefault).optCopy
    /\ nConns' = <<>>
    /\ nChan' = <<>>
    /\ nDialFailed' = FALSE
    /\ nPc' = "eval"
    /\ UNCHANGED <<cfg, poolVars, cmdVars, sendVars, recvVars, opVars, wireVars, dmnVars, encVars,
                   oDefault, nClients>>

\* for _, o := range opts { o(optCopy) }
ApplyOption ==
    /\ nPc = "eval"
    /\ oRest # <<>>
    /\ IF oPtr = "optCopy"
         THEN /\ oCopy' = [oCopy EXCEPT ![Head(oRest).f] = OptionValue(Head(oRest))]
              /\ UNCHANGED oDefault
         ELSE /\ oDefault' = [oDefault EXCEPT ![Head(oRest).f] = OptionValue(Head(oRest))]
              /\ UNCHANGED oCopy
    /\ oRest' = Tail(oRest)
    /\ UNCHANGED <<cfg, poolVars, cmdVars, sendVars, recvVars, opVars, wireVars, dmnVars, encVars,
                   oPtr, oGiven, nPc, nConns, nChan, nDialFailed, nClients, nStarted>>

\* pool.NewChannelPool(o.initialConnections, o.maxConnections, factory): the check of the
\* capacities; NewClient returns the error
NewChannelPool ==
    /\ nPc = "eval"
    /\ oRest = <<>>
    /\ nPc' = IF InvalidCapacity(Options.initialConnections, Options.maxConnections)
                THEN "failed" ELSE "fill"
    /\ UNCHANGED <<cfg, poolVars, cmdVars, sendVars, recvVars, opVars, wireVars, dmnVars, encVars,
                   oDefault, oCopy, oPtr, oRest, oGiven, nConns, nChan, nDialFailed,
                   nClients, nStarted>>

\* one turn of NewChannelPool's loop: conn, err := factory(); on an error c.Close() and
\* the error is returned, else c.conns <- conn
Dial(ok) ==
    /\ nPc = "fill"
    /\ Len(nChan) < Options.initialConnections
    /\ IF ok
         THEN /\ nConns' = Append(nConns, "open")
              /\ nChan' = Append(nChan, Len(nConns) + 1)
              /\ UNCHANGED <<nPc, nDialFailed>>
         ELSE /\ nConns' = ClosePool(nConns, nChan)
              /\ nChan' = <<>>
              /\ nDialFailed' = TRUE
              /\ nPc' = "failed"
    /\ UNCHANGED <<cfg, poolVars, cmdVars, sendVars, recvVars, opVars, wireVars, dmnVars, encVars,
                   oDefault, oCopy, oPtr, oRest, oGiven, nClients, nStarted>>

\* return &Client{pool, hostname, timeout, maxAttempts, hashKeys}, nil
NewClientReturn ==
    /\ nPc = "fill"
    /\ Len(nChan) >= Options.initialConnections
    /\ nClients' = Append(nClients, [given |-> oGiven, settings |-> Options])
    /\ nPc' = "built"
    /\ UNCHANGED <<cfg, poolVars, cmdVars, sendVars, recvVars, opVars, wireVars, dmnVars, encVars,
                   oDefault, oCopy, oPtr, oRest, oGiven, nConns, nChan, nDialFailed,
                   nStarted>>

NextNew ==
    \/ \E opts \in SeqsUpTo(OptionSet, MaxOpts) : NewClientCall(opts)
    \/ ApplyOption
    \/ NewChannelPool
    \/ \E ok \in BOOLEAN : Dial(ok)
    \/ NewClientReturn

SpecNew == InitNew /\ [][NextNew]_vars

\* ------------------------------------------------------------- wire
\* The client of src/bloomd.go issuing one command after the other over the one
\* connection of its pool.  What send writes reaches the daemon, which answers every
\* complete line it reads; what the daemon writes stays on the connection until a
\* recv reads it or the connection is closed.
WireNames == {<<"foo">>, <<"END", "x">>}
WireOrder == <<<<"END", "x">>, <<"foo">>>>
WireKeys == {<<"a">>, <<"a", "\n", "b">>}
WireOps == {"Create", "Set", "Check", "ListAll"}
CLIENT_ERROR == <<"Client", " ", "Error:", " ", "Command", " ", "not", " ", "supported">>

RECURSIVE WireRows(_, _)
WireRows(filters, i) ==
    IF i > Len(WireOrder) THEN <<>>
    ELSE (IF filters[WireOrder[i]].exists THEN DaemonRow(WireOrder[i]) ELSE <<>>)
         \o WireRows(filters, i + 1)

\* the daemon reads one line: a command it knows is answered as Daemon does, any
\* other line with its client error
WireDaemon(filters, line) ==
    LET toks == Split(line, " ") IN
      IF line = <<Verb("ListAll")>>
        THEN [filters |-> filters,
              reply |-> <<RESPONSE_START, "\n">> \o WireRows(filters, 1)
                        \o <<RESPONSE_END, "\n">>]
      ELSE IF /\ Len(toks) >= 2
              /\ toks[1] \in {<<Verb("Create")>>, <<Verb("Set")>>, <<Verb("Check")>>}
              /\ toks[2] \in WireNames
              /\ toks[1] # <<Verb("Create")>> => Len(toks) >= 3
        THEN Daemon(filters, line)
      ELSE [filters |-> filters, reply |-> CLIENT_ERROR \o <<"\n">>]

\* the daemon reads the lines of one write, one after the other
RECURSIVE Serve(_, _, _)
Serve(filters, lines, reply) ==
    IF lines = <<>> THEN [filters |-> filters, reply |-> reply]
    ELSE LET d == WireDaemon(filters, Head(lines))
         IN  Serve(d.filters, Tail(lines), reply \o d.reply)

\* the bytes of the successful write of a send, cut into the lines the daemon reads
Written(log) ==
    IF Wrote(log)
      THEN LET data == log[Len(log)].data
           IN  Split(SubSeq(data, 1, Len(data) - 1), "\n")
      ELSE <<>>

\* recv on a connection that holds complete lines: the response and the bytes left
RECURSIVE recvBlockConn(_, _)
recvBlockConn(in, bldr) ==
    LET r == ReadString(in) IN
      IF HasPrefix(r.txt, RESPONSE_END) THEN [out |-> bldr, rest |-> r.rest]
      ELSE recvBlockConn(r.rest, BlockAppend(bldr, r.txt))

recvConn(in) ==
    LET r == ReadString(in)
        b == IF HasPrefix(r.txt, RESPONSE_START) THEN recvBlockConn(r.rest, <<>>)
             ELSE [out |-> r.txt, rest |-> r.rest]
    IN  [out |-> TrimRight(b.out), rest |-> b.rest]

\* the command line of a call
WireLine(hashKeys, op, name, key) ==
    IF op = "ListAll" THEN <<Verb(op)>>
    ELSE IF op = "Create" THEN buildCreateCommand(name, 0, 0, FALSE)
    ELSE buildCommand(hashKeys, Verb(op), name, <<key>>)

InitWire ==
    /\ ClientOff /\ SendOff /\ RecvOff /\ OpOff /\ NewOff /\ DmnOff /\ EncOff
    /\ xFilters \in [WireNames -> {NoFilter, EmptyFilter}]
    /\ xHash \in BOOLEAN
    /\ xLine = <<>>
    /\ xN = 0
    /\ xConn = "pooled"
    /\ xIn = <<>>
    /\ xBy = <<>>
    /\ xUnus = FALSE
    /\ xPc = "none"
    /\ xCpc = "idle"
    /\ xRead = {}
    /\ xResp = NoResp
    /\ xRet = "none"
    /\ xOp = "none"
    /\ xRes = NoRes

\* sendCommand up to its select, the previous command's worker having finished
XCall(op, name, key) ==
    /\ xN < MaxCalls
    /\ xCpc \in {"idle", "returned"}
    /\ xPc \in {"none", "done"}
    /\ xLine' = WireLine(xHash, op, name, key)
    /\ xN' = xN + 1
    /\ xCpc' = "waiting"
    /\ xPc' = "get"
    /\ xRead' = {}
    /\ xResp' = NoResp
    /\ xRet' = "none"
    /\ xOp' = op
    /\ xRes' = NoRes
    /\ UNCHANGED <<cfg, newVars, dmnVars, encVars, poolVars, cmdVars, sendVars, recvVars,
                   opVars, xFilters, xHash, xConn, xIn, xBy, xUnus>>

\* worker: t.pool.Get() takes the idle connection or dials a new one
XGet ==
    /\ xPc = "get"
    /\ xConn' = "held"
    /\ xUnus' = FALSE
    /\ IF PoolGet(FALSE, IF xConn = "pooled" THEN <<1>> ELSE <<>>) = "take"
         THEN UNCHANGED <<xIn, xBy>>
         ELSE xIn' = <<>> /\ xBy' = <<>>
    /\ xPc' = "send"
    /\ UNCHANGED <<cfg, newVars, dmnVars, encVars, poolVars, cmdVars, sendVars, recvVars,
                   opVars, xFilters, xHash, xLine, xN, xCpc, xRead, xResp, xRet, xOp,
                   xRes>>

\* worker: send(conn, cmd, t.maxAttempts); the daemon answers what was written
XSend(outs) ==
    /\ xPc = "send"
    /\ LET r == send(xLine, cfg.maxAttempts, outs)
           d == Serve(xFilters, Written(r.log), <<>>)
       IN  /\ xFilters' = d.filters
           /\ xIn' = xIn \o d.reply
           /\ xBy' = xBy \o [i \in 1..Len(d.reply) |-> xN]
           /\ IF r.res = "err"
                THEN /\ xResp' = [line |-> <<>>, err |-> "writeErr"]
                     /\ xUnus' = checkConnectionError(1, xUnus)
                     /\ xPc' = "close"
                ELSE /\ xPc' = "recv"
                     /\ UNCHANGED <<xResp, xUnus>>
    /\ UNCHANGED <<cfg, newVars, dmnVars, encVars, poolVars, cmdVars, sendVars, recvVars,
                   opVars, xHash, xLine, xN, xConn, xCpc, xRead, xRet, xOp, xRes>>

\* worker: line, err = recv(conn); the bytes recv's reader buffered beyond the
\* response are lost with the reader
XRecv(ok, buffered) ==
    /\ xPc = "recv"
    /\ IF ok
         THEN /\ HasLine(xIn)
              /\ LET r == recvConn(xIn)
                     n == Len(xIn) - Len(r.rest)
                 IN  /\ xResp' = [line |-> r.out, err |-> "nil"]
                     /\ xRead' = {xBy[i] : i \in 1..n}
                     /\ xIn' = IF buffered THEN <<>> ELSE r.rest
                     /\ xBy' = IF buffered THEN <<>> ELSE SubSeq(xBy, n + 1, Len(xBy))
              /\ UNCHANGED xUnus
         ELSE /\ xResp' = [line |-> <<>>, err |-> "readErr"]
              /\ xUnus' = checkConnectionError(1, xUnus)
              /\ UNCHANGED <<xRead, xIn, xBy>>
    /\ xPc' = "close"
    /\ UNCHANGED <<cfg, newVars, dmnVars, encVars, poolVars, cmdVars, sendVars, recvVars,
                   opVars, xFilters, xHash, xLine, xN, xConn, xCpc, xRet, xOp, xRes>>

\* worker: the deferred conn.Close(), then the result goes to the channel
XClose ==
    /\ xPc = "close"
    /\ IF PoolConnClose(xUnus, FALSE, <<>>, cfg.maxConnections) = "pooled"
         THEN xConn' = "pooled" /\ UNCHANGED <<xIn, xBy>>
         ELSE xConn' = "closed" /\ xIn' = <<>> /\ xBy' = <<>>
    /\ xPc' = "done"
    /\ UNCHANGED <<cfg, newVars, dmnVars, encVars, poolVars, cmdVars, sendVars, recvVars,
                   opVars, xFilters, xHash, xLine, xN, xUnus, xCpc, xRead, xResp, xRet,
                   xOp, xRes>>

\* caller: case err := <-ch; the operation returns the error, or what its parser makes
\* of the line
XReturn ==
    /\ xCpc = "waiting"
    /\ xPc = "done"
    /\ xRet' = IF xResp.err = "nil" THEN "ok" ELSE xResp.err
    /\ xRes' = IF xResp.err = "nil" THEN SessParse(xOp, 1, xResp.line)
               ELSE [val |-> ZeroOf(xOp), err |-> SendCommandErr]
    /\ xCpc' = "returned"
    /\ UNCHANGED <<cfg, newVars, dmnVars, encVars, poolVars, cmdVars, sendVars, recvVars,
                   opVars, xFilters, xHash, xLine, xN, xConn, xIn, xBy, xUnus, xPc, xRead,
                   xResp, xOp>>

\* caller: case <-ctx.Done(); conn is read while the worker may be writing it
XDeadline ==
    /\ xCpc = "waiting"
    /\ xRet' = "deadline"
    /\ xRes' = [val |-> ZeroOf(xOp), err |-> SendCommandErr]
    /\ \E seen \in {NoConn} \cup (IF xConn = "held" THEN {1} ELSE {}) :
         xUnus' = checkConnectionError(seen, xUnus)
    /\ xCpc' = "returned"
    /\ UNCHANGED <<cfg, newVars, dmnVars, encVars, poolVars, cmdVars, sendVars, recvVars,
                   opVars, xFilters, xHash, xLine, xN, xConn, xIn, xBy, xPc, xRead, xResp,
                   xOp>>

NextWire ==
    \/ \E op \in WireOps, name \in WireNames, key \in WireKeys : XCall(op, name, key)
    \/ XGet
    \/ \E outs \in WriteOutcomes : XSend(outs)
    \/ \E ok \in BOOLEAN, buffered \in BOOLEAN : XRecv(ok, buffered)
    \/ XClose
    \/ XReturn
    \/ XDeadline

SpecWire == InitWire /\ [][NextWire]_vars

\* ------------------------------------------------------------- claims
LiveConns == {k \in ConnIds : conns[k] = "open"}

\* the worker is between its pool.Get and its conn.Close
Holding(c) == wpc[c] \in {"send", "recv", "close"}

\* C1: the number of simultaneously open connections never exceeds maxConnections.
C1_LiveWithinMax == Cardinality(LiveConns) <= cfg.maxConnections

\* C2: no two workers hold the same connection between pool.Get and conn.Close, and
\* a connection a worker holds is not in the pool where another Get could take it.
C2_ExclusiveOwnership ==
    /\ \A c1 \in Cmds, c2 \in Cmds :
         (c1 # c2 /\ Holding(c1) /\ Holding(c2)) => conn[c1] # conn[c2]
    /\ \A c \in Cmds : Holding(c) => conn[c] \notin Range(idle)

\* two workers hold connections at once, the caller of one having given up on its deadline
C2_Witness ==
    \E c1 \in Cmds, c2 \in Cmds :
        /\ c1 # c2
        /\ Holding(c1) /\ Holding(c2)
        /\ cpc[c1] = "returned" /\ ret[c1] = "deadline"

\* C3: every command returns to its caller: a caller waiting in sendCommand's select
\* leaves it, by the worker's result or by the deadline of the client's timeout.
C3_EveryCommandReturns ==
    \A c \in Cmds : (cpc[c] = "waiting") ~> (cpc[c] = "returned")

\* the caller returned on the deadline while its worker still waits for the daemon's reply
C3_Witness ==
    \E c \in Cmds : cpc[c] = "returned" /\ ret[c] = "deadline" /\ wpc[c] = "recv" /\ wrote[c]

\* C4: when the deadline or the cancellation won, the connection the command's worker
\* used is closed once the worker is through.
C4_DeadlineDiscards ==
    \A c \in Cmds :
        (ret[c] \in CtxErrors /\ wpc[c] = "done" /\ conn[c] # NoConn) => IsClosed(conn[c])

\* C5: a connection whose send or recv failed is marked unusable before its release,
\* the release closes it, a closed connection is neither in the pool nor held by a
\* worker, and the caller that got the worker's result got that I/O error.
C5_IOFailureDiscards ==
    /\ \A c \in Cmds :
         werr[c] \in IOErrors =>
            /\ wpc[c] = "close" => unusable[c]
            /\ wpc[c] \in {"deliver", "done"} =>
                  (rel[c] = "closedUnusable" /\ IsClosed(conn[c]))
            /\ (cpc[c] = "returned" /\ ret[c] \notin CtxErrors) => ret[c] = werr[c]
    /\ \A k \in ConnIds :
         IsClosed(k) =>
            /\ k \notin Range(idle)
            /\ \A c \in Cmds : Holding(c) => conn[c] # k

\* a command got its I/O error, its connection is closed, and a later worker holds another
C5_Witness ==
    \E c1 \in Cmds, c2 \in Cmds :
        /\ c1 # c2
        /\ ret[c1] \in IOErrors /\ rel[c1] = "closedUnusable"
        /\ Holding(c2) /\ ~afterShutdown[c2]

\* C6: a command that succeeded before its deadline has put its connection back into
\* the (open) pool, where a later acquire can take it.
C6_SuccessReturnsToPool ==
    \A c \in Cmds : (ret[c] = "ok" /\ ~poolClosed) => rel[c] = "pooled"

\* C7: a command issued after Shutdown returns an error, a closed pool stays closed,
\* and a Shutdown of a closed pool changes nothing.
C7_ShutdownTerminal ==
    /\ [](\A c \in Cmds :
            (afterShutdown[c] /\ cpc[c] = "returned") => ret[c] \notin {"ok", "none"})
    /\ [][poolClosed => poolClosed']_vars
    /\ [][(poolClosed /\ Shutdown) => UNCHANGED vars]_vars

\* a command issued after Shutdown was refused by the closed pool
C7_Witness ==
    \E c \in Cmds : afterShutdown[c] /\ cpc[c] = "returned" /\ ret[c] = "ErrClosed"

\* C8 as claimed: right after Shutdown no connection is open, held or not.
C8_NoOpenAfterShutdown ==
    [][Shutdown => \A k \in ConnIds : conns'[k] # "open"]_vars

\* C8 as amended: right after Shutdown the pool holds no connection and every
\* connection still open is held by an in-flight worker.
C8_ShutdownClosesIdle ==
    [][Shutdown =>
         /\ idle' = <<>>
         /\ \A k \in ConnIds :
              conns'[k] = "open" =>
                 \E c \in Cmds : wpc'[c] \in {"send", "recv", "close"} /\ conn'[c] = k]_vars

\* Shutdown closed an idle connection while a worker holds one that is still open
C8_Witness ==
    /\ poolClosed
    /\ \E k \in ConnIds : conns[k] = "closedPool"
    /\ \E c \in Cmds : Holding(c) /\ conns[conn[c]] = "open"

\* C9: send writes cmd and a newline at each attempt, one attempt after the other,
\* stops at the first write that succeeds and returns success, makes at most
\* maxAttempts attempts, and returns an error when all maxAttempts attempts failed.
C9_SendBounded ==
    sPc = "done" =>
        LET log == sRes.log
            n == Len(log)
        IN  /\ n <= (IF sMax > 0 THEN sMax ELSE 0)
            /\ \A i \in 1..n : log[i].data = sCmd \o <<"\n">> /\ log[i].ok = sOuts[i]
            /\ \A i \in 1..(n - 1) : ~log[i].ok
            /\ (n >= 1 /\ log[n].ok) => sRes.res = "ok"
            /\ (n >= 1 /\ ~log[n].ok) => (n = sMax /\ sRes.res = "err")
            /\ sRes.res = "err" => (n = sMax /\ \A i \in 1..n : ~log[i].ok)

\* the first write failed and the second, the last one allowed, succeeded
C9_Witness ==
    /\ sPc = "done" /\ sMax = 2
    /\ Len(sRes.log) = 2 /\ ~sRes.log[1].ok /\ sRes.log[2].ok
    /\ sRes.res = "ok"

\* the response the framing of C10 describes, for the lines the daemon sent
RECURSIVE Join(_)
Join(bodies) ==
    IF bodies = <<>> THEN <<>>
    ELSE IF Len(bodies) = 1 THEN bodies[1]
    ELSE bodies[1] \o <<"\n">> \o Join(Tail(bodies))

EndIndex(lines) ==
    CHOOSE j \in 2..Len(lines) :
        /\ HasPrefix(lines[j].body, RESPONSE_END)
        /\ \A i \in 2..(j - 1) : ~HasPrefix(lines[i].body, RESPONSE_END)

Framed(lines) ==
    IF ~HasPrefix(lines[1].body, RESPONSE_START)
      THEN lines[1].body
      ELSE Join([i \in 1..(EndIndex(lines) - 2) |-> lines[i + 1].body])

\* C10: recv returns the single line stripped of its terminator, or the lines strictly
\* between the markers, each stripped of its terminator and joined by one newline.
C10_RecvFraming == (rPc = "done" /\ ~rErr) => rOut = Framed(rStream)

\* C11: a read that fails, on the first line or on any line of a block before the end
\* marker, ends recv with an error and the empty response, whatever the builder holds,
\* and recv reads nothing more after the failure.
C11_ReadFailureEmpty ==
    /\ [](rErr => (rPc = "done" /\ rOut = <<>>))
    /\ [][RReadErr => (rErr' /\ rPc' = "done" /\ rOut' = <<>> /\ rBldr' = rBldr)]_vars
    /\ [][rErr => UNCHANGED recvVars]_vars

\* the connection failed inside a block, after a line of it had been accumulated
C11_Witness == rErr /\ rPc = "done" /\ rBldr # <<>> /\ Len(rStream) >= 2

\* the operation has returned what its parser made of the daemon's reply
Parsed(ops) == pPc = "done" /\ pOp \in ops /\ ~pResp.err

\* C12: parseBool gives (true, nil) for exactly "Yes", (false, nil) for exactly "No" and
\* for any other response false with an error whose text is the response; Set and Check
\* return that for the daemon's reply.
C12_ParseBool ==
    Parsed(BoolOps) =>
        /\ (pRes.val = TRUE /\ pRes.err = Nil) <=> (pResp.line = <<"Yes">>)
        /\ (pRes.val = FALSE /\ pRes.err = Nil) <=> (pResp.line = <<"No">>)
        /\ pResp.line \notin {<<"Yes">>, <<"No">>} =>
              (pRes.val = FALSE /\ pRes.err.kind = "New" /\ pRes.err.text = pResp.line)

\* Set got a reply that only begins with "Yes": false and an error carrying the reply
C12_Witness ==
    /\ Parsed({"Set"}) /\ pResp.line = <<"Yes", "x">>
    /\ pRes.val = FALSE /\ pRes.err.text = <<"Yes", "x">>

\* C13 as claimed: a successful parseBoolList(len(K), text) has exactly len(K) elements,
\* the i-th being true iff the i-th space-separated part of text is "Yes".
C13_ListLengthIsKeys ==
    (Parsed(BoolListOps) /\ pRes.err = Nil) =>
        /\ Len(pRes.val) = pKeys
        /\ \A i \in DOMAIN pRes.val : pRes.val[i] <=> (Split(pResp.line, " ")[i] = <<"Yes">>)

\* C13 as amended: a successful parseBoolList(n, text) has one element for each
\* space-separated part of text, whatever n is, the i-th being true iff the i-th part is
\* "Yes"; it has len(K) elements when the daemon answered with one part for each key.
C13_ListFollowsParts ==
    (Parsed(BoolListOps) /\ pRes.err = Nil) =>
        /\ Len(pRes.val) = Len(Split(pResp.line, " "))
        /\ \A i \in DOMAIN pRes.val : pRes.val[i] <=> (Split(pResp.line, " ")[i] = <<"Yes">>)
        /\ Len(Split(pResp.line, " ")) = pKeys => Len(pRes.val) = pKeys

\* Multi with one key got "No Yes x": three elements, the last one false
C13_Witness ==
    /\ Parsed({"Multi"}) /\ pKeys = 1
    /\ pResp.line = <<"No", " ", "Yes", " ", "x">>
    /\ pRes.err = Nil /\ pRes.val = <<FALSE, TRUE, FALSE>>

\* C14: parseBoolList gives FilterDoesNotExist and no list for exactly "Filter does not
\* exist", and another error and no list for any other response that begins with
\* neither "Yes" nor "No".
C14_ListErrors ==
    Parsed(BoolListOps) =>
        /\ (pRes.err = FilterDoesNotExist) <=> (pResp.line = RESPONSE_FILTER_NOT_EXIST)
        /\ pRes.err = FilterDoesNotExist => pRes.val = <<>>
        /\ (/\ pResp.line # RESPONSE_FILTER_NOT_EXIST
            /\ (pResp.line = <<>> \/ pResp.line[1] \notin {"Yes", "No"})) =>
              (pRes.val = <<>> /\ pRes.err.kind = "Errorf")
        /\ pRes.err.kind = "Errorf" =>
              (pResp.line = <<>> \/ pResp.line[1] \notin {"Yes", "No"})

\* Bulk got "Filter does not exist" and returned FilterDoesNotExist
C14_Witness ==
    /\ Parsed({"Bulk"}) /\ pResp.line = RESPONSE_FILTER_NOT_EXIST
    /\ pRes.err = FilterDoesNotExist /\ pRes.val = <<>>

\* C15: parseConfirmation succeeds for exactly "Done"; Clear, Close, FlushAll and
\* FlushFilter succeed iff the daemon replied "Done".
C15_Confirmation ==
    (pPc = "done" /\ pOp \in ConfirmOps) =>
        /\ (pRes.err = Nil) <=> (~pResp.err /\ pResp.line = <<"Done">>)
        /\ (~pResp.err /\ pResp.line # <<"Done">>) =>
              (pRes.err.kind = "New" /\ pRes.err.text = pResp.line)

\* Clear got "Filter is not proxied. Close it first." and returned an error
C15_Witness ==
    /\ Parsed({"Clear"}) /\ pResp.line = RESPONSE_FILTER_NOT_PROXIED
    /\ pRes.err # Nil

\* C16: parseDropConfirmation succeeds for exactly "Done" and "Filter does not exist".
C16_DropConfirmation ==
    Parsed(DropOps) =>
        /\ (pRes.err = Nil) <=>
              (pResp.line \in {<<"Done">>, <<"Filter", " ", "does", " ", "not", " ", "exist">>})
        /\ pRes.err # Nil => (pRes.err.kind = "New" /\ pRes.err.text = pResp.line)

\* Drop of a filter the daemon does not have succeeded
C16_Witness ==
    Parsed(DropOps) /\ pResp.line = RESPONSE_FILTER_NOT_EXIST /\ pRes.err = Nil

\* C17: parseCreate succeeds for exactly "Done" and "Exists", gives DeleteInProgress for
\* exactly "Delete in progress" and a generic error otherwise; CreateWithParams has
\* called sendCommand once when it returns, with DeleteInProgress too.
C17_Create ==
    /\ (pPc = "done" /\ pOp \in CreateOps) => pSent = 1
    /\ Parsed(CreateOps) =>
        /\ (pRes.err = Nil) <=> (pResp.line \in {<<"Done">>, <<"Exists">>})
        /\ (pRes.err = DeleteInProgress) <=>
              (pResp.line = <<"Delete", " ", "in", " ", "progress">>)
        /\ pRes.err \notin {Nil, DeleteInProgress} =>
              (pRes.err.kind = "New" /\ pRes.err.text = pResp.line)
    /\ DeleteInProgress.kind \notin {"New", "Errorf", "nil"}

\* CreateWithParams got "Delete in progress" and returned DeleteInProgress after one command
C17_Witness ==
    /\ Parsed(CreateOps) /\ pResp.line = RESPONSE_DELETE_IN_PROG
    /\ pRes.err = DeleteInProgress /\ pSent = 1

\* the numerals that are an integer, and those that are a number
IsInteger(v) == Len(v) = 1 /\ v[1] \in {"1", "2", "3"}
IsNumber(v) == Len(v) = 1 /\ v[1] \in {"0.5", "1", "2", "3"}

\* the key and the value of a line of an info block, and the lines the claim rejects
KeyOf(l) == SubSeq(l, 1, FirstSep(l, " ") - 1)
ValueOf(l) == SubSeq(l, FirstSep(l, " ") + 1, Len(l))
BadInfoLine(l) ==
    \/ ~HasSep(l, " ")
    \/ KeyOf(l) = <<"probability">> /\ ~IsNumber(ValueOf(l))
    \/ KeyOf(l) # <<"probability">> /\ ~IsInteger(ValueOf(l))

\* the value of the last line with the key, zero without such a line
LastOf(lines, k) ==
    LET at == {i \in DOMAIN lines : KeyOf(lines[i]) = <<k>>} IN
    IF at = {} THEN <<>> ELSE ValueOf(lines[CHOOSE i \in at : \A j \in at : j <= i])
IntOf(v) == IF v = <<>> THEN 0 ELSE IntValue[v[1]]
FloatOf(v) == IF v = <<>> THEN 0 ELSE FloatValue[v[1]]

InfoFieldOf ==
    [capacity |-> "Capacity", size |-> "Size", storage |-> "Storage", checks |-> "Checks",
     check_hits |-> "CheckHits", check_misses |-> "CheckMisses", page_ins |-> "PageIns",
     page_outs |-> "PageOuts", sets |-> "Sets", set_hits |-> "SetHits",
     set_misses |-> "SetMisses"]

\* C18: parseInfo fails for the whole response if a line has no space between a key and
\* a value, a probability that is no number or another value that is no integer;
\* otherwise it returns the filter with the name given, each field holding the value
\* of its key, zero for a key the response does not have, other keys ignored.
C18_ParseInfo ==
    Parsed(InfoOps) =>
        LET lines == Split(pResp.line, "\n") IN
        IF \E i \in DOMAIN lines : BadInfoLine(lines[i])
          THEN pRes.err # Nil /\ pRes.val = ZeroVerboseBloomFilter
          ELSE /\ pRes.err = Nil
               /\ pRes.val.Name = FilterName
               /\ pRes.val.Probability = FloatOf(LastOf(lines, "probability"))
               /\ \A k \in DOMAIN InfoFieldOf :
                     pRes.val[InfoFieldOf[k]] = IntOf(LastOf(lines, k))
               /\ DOMAIN pRes.val = {"Name", "Probability"} \cup Range(InfoFieldOf)

\* Info got a probability and an unknown key: the probability is kept, the rest is zero
C18_Witness ==
    /\ Parsed(InfoOps)
    /\ pResp.line = <<"probability", " ", "0.5", "\n", "zzz", " ", "2">>
    /\ pRes.err = Nil /\ pRes.val.Probability = 5 /\ pRes.val.Capacity = 0

\* the rows the claim accepts
GoodRow(r) ==
    LET parts == Split(r, " ") IN
    /\ Len(parts) = 5
    /\ IsNumber(parts[2])
    /\ IsInteger(parts[3]) /\ IsInteger(parts[4]) /\ IsInteger(parts[5])

\* C19: parseFilterList returns one BloomFilter for each row, in the order of the rows,
\* made of the fields name, probability, storage, capacity, size in that order, and an
\* error and no list if a row has not five fields or a numeric field that is no number.
C19_ParseFilterList ==
    Parsed(ListOps) =>
        LET rows == Split(pResp.line, "\n") IN
        IF \A i \in DOMAIN rows : GoodRow(rows[i])
          THEN /\ pRes.err = Nil
               /\ Len(pRes.val) = Len(rows)
               /\ \A i \in DOMAIN rows :
                     LET parts == Split(rows[i], " ") IN
                     pRes.val[i] = [Name |-> parts[1],
                                    Probability |-> FloatValue[parts[2][1]],
                                    Storage |-> IntValue[parts[3][1]],
                                    Capacity |-> IntValue[parts[4][1]],
                                    Size |-> IntValue[parts[5][1]]]
          ELSE pRes.err # Nil /\ pRes.val = <<>>

\* ListAll got the rows of bar and foo and returned the two filters in that order
C19_Witness ==
    /\ Parsed({"ListAll"})
    /\ pRes.err = Nil /\ Len(pRes.val) = 2
    /\ pRes.val[1].Name = <<"bar">> /\ pRes.val[2].Name = <<"foo">>
    /\ pRes.val[1].Storage = 1 /\ pRes.val[1].Capacity = 2 /\ pRes.val[1].Size = 3

\* C20: CreateWithParams called with probability > 0 and capacity < 1 returns its error
\* at once: no worker is started, so no connection is taken from the pool or dialled
\* and nothing is written, and the pool is as it was.
C20_InvalidCreateRejected ==
    [][\A c \in Cmds, capacity \in CreateCapacities, probability \in CreateProbabilities :
          (probability > 0 /\ capacity < 1 /\ CreateWithParams(c, capacity, probability)) =>
              /\ cpc'[c] = "returned" /\ ret'[c] = "invalidParams"
              /\ UNCHANGED <<poolVars, wpc, conn, wrote, ch, issued>>]_vars

\* an invalid create was rejected while another command's worker holds a connection
C20_Witness ==
    \E c1 \in Cmds, c2 \in Cmds :
        /\ c1 # c2
        /\ cpc[c1] = "returned" /\ ret[c1] = "invalidParams" /\ wpc[c1] = "none"
        /\ Holding(c2)

\* C21: the line of a create command is "create <name>", then " capacity=<capacity>"
\* exactly when capacity > 0, then " prob=<probability>" exactly when probability > 0,
\* then " in_memory=1" exactly when inMemory, in that order and nothing else; Create(name)
\* is CreateWithParams(name, 0, 0, false) and its line is exactly "create <name>".
C21_CreateLine ==
    /\ (ePc = "built" /\ eOp = "CreateWithParams") =>
          eLine = <<"create", " ">> \o eName
                  \o (IF eCreate.capacity > 0
                        THEN <<" ", "capacity=">> \o Sprintf_d(eCreate.capacity) ELSE <<>>)
                  \o (IF eCreate.probability > 0
                        THEN <<" ", "prob=">> \o Sprintf_f(eCreate.probability) ELSE <<>>)
                  \o (IF eCreate.inMemory THEN <<" ", "in_memory=1">> ELSE <<>>)
    /\ (ePc # "call" /\ eOp = "Create") =>
          ePc = "built" /\ eLine = <<"create", " ">> \o eName

C21_Witness ==
    /\ ePc = "built" /\ eOp = "CreateWithParams"
    /\ eCreate.capacity > 0 /\ eCreate.probability > 0 /\ eCreate.inMemory
    /\ eLine = <<"create", " ", "foo", " ", "capacity=", "1", " ", "prob=",
                 "0", ".", "0", "0", "0", "1", "0", "0", " ", "in_memory=1">>

\* C22: for every verb, every filter name without whitespace and every sequence of keys,
\* the encoded command has no newline in it and is the verb, a space, the name and then
\* each key preceded by one space, so that it reads as one command with exactly
\* len(keys) key arguments.
C22_SingleLineCommand ==
    (ePc = "built" /\ eOp \in KeyOps \cup NameOps) =>
        /\ \A i \in DOMAIN eLine : eLine[i] # "\n"
        /\ Len(Split(eLine, " ")) = 2 + Len(eKeys)

\* the part of a built line that follows the verb, the space and the name
KeyPart == SubSeq(eLine, 3 + Len(eName), Len(eLine))
Digests == {Sha1Hex(k) : k \in EncKeys}

\* C23: with hashKeys set, every key of Set, Check, Bulk and Multi is sent as the
\* hexadecimal digest of that key alone (equal keys give equal tokens) and no part of the
\* plain key is on the line; without it the key is sent as given; the filter name is
\* never hashed.
C23_HashedKeys ==
    (ePc = "built" /\ eOp \in KeyOps) =>
        /\ SubSeq(eLine, 1, 2 + Len(eName)) = <<Verb(eOp), " ">> \o eName
        /\ eHash =>
             /\ Len(KeyPart) = 2 * Len(eKeys)
             /\ \A i \in DOMAIN eKeys :
                   /\ KeyPart[2 * i - 1] = " "
                   /\ KeyPart[2 * i] = Sha1Hex(eKeys[i])
                   /\ KeyPart[2 * i] \in Digests
                   /\ <<KeyPart[2 * i]>> # eKeys[i]
                   /\ \A j \in DOMAIN eKeys :
                         eKeys[i] = eKeys[j] <=> KeyPart[2 * i] = KeyPart[2 * j]
        /\ ~eHash =>
             KeyPart = IF eKeys = <<>> THEN <<>> ELSE <<" ">> \o JoinWith(eKeys, " ")

C23_Witness ==
    /\ ePc = "built" /\ eOp = "Multi" /\ eHash /\ eName = <<"a">>
    /\ eKeys = <<<<"a", " ", "b">>, <<"a">>>>
    /\ eLine = <<"m", " ", "a", " ", "7dbde93504122a707f849f2c12bdd9de71b41929", " ",
                 "86f7e437faa5a7fce15d1ddcb9eaeaea377667b8">>

\* a call of the session that reached the daemon
Reached(call, ops) == call.op \in ops /\ ~call.fail

\* C24: Drop is idempotent: two calls of Drop in succession on the same filter, against a
\* daemon that is reached, both return no error, whether the filter existed or not.
C24_DropTwice ==
    (Reached(dPrev, {"Drop"}) /\ Reached(dCall, {"Drop"}) /\ dPrev.name = dCall.name) =>
        /\ dPrev.res.err = Nil
        /\ dCall.res.err = Nil
        /\ ~dCall.existed

C24_Witness ==
    /\ Reached(dPrev, {"Drop"}) /\ Reached(dCall, {"Drop"}) /\ dPrev.name = dCall.name
    /\ dPrev.existed /\ ~dCall.existed
    /\ dCall.res.err = Nil

\* the keys before position i of a sequence
Before(keys, i) == {keys[j] : j \in 1..(i - 1)}

\* what the round trip promises of a call that returned no error, S being the keys set
\* in the filter so far
RoundTrip(call) ==
    /\ call.op = "Check" => call.res.val = (call.keys[1] \in call.had)
    /\ call.op = "Set" => call.res.val = (call.keys[1] \notin call.had)
    /\ call.op = "Multi" =>
          /\ Len(call.res.val) = Len(call.keys)
          /\ \A i \in DOMAIN call.keys : call.res.val[i] = (call.keys[i] \in call.had)
    /\ call.op = "Bulk" =>
          /\ Len(call.res.val) = Len(call.keys)
          /\ \A i \in DOMAIN call.keys :
                call.res.val[i] = (call.keys[i] \notin call.had \cup Before(call.keys, i))

\* C25: against a daemon holding exact sets, Check and Multi of keys never set in a fresh
\* filter return false; each element of Bulk (and Set) is true for a newly added key;
\* after the keys S were set, Check of a key returns whether it is in S and Multi over K
\* returns at each position i whether K[i] is in S, in the order of K.
C25_RoundTrip ==
    (Reached(dCall, {"Set", "Check", "Bulk", "Multi"}) /\ dCall.res.err = Nil) =>
        RoundTrip(dCall)

\* the same for keys without whitespace, or hashed
PlainKey(k) == \A i \in DOMAIN k : k[i] \notin {" ", "\n", "\r"}
C25_RoundTripPlainKeys ==
    (/\ Reached(dCall, {"Set", "Check", "Bulk", "Multi"}) /\ dCall.res.err = Nil
     /\ dHash \/ \A k \in dCall.had \cup Range(dCall.keys) : PlainKey(k)) =>
        RoundTrip(dCall)

\* C26: Ping returns no error whenever the daemon is reached and answers list-all with a
\* well-formed block of N >= 0 rows, the empty block included, and ListAll then returns
\* exactly N records; Ping returns an error when list-all fails.
C26_PingListAll ==
    /\ Reached(dCall, {"Ping", "ListAll"}) =>
          /\ dCall.res.err = Nil
          /\ dCall.op = "ListAll" => Len(dCall.res.val) = dCall.count
    /\ (dCall.op \in {"Ping", "ListAll"} /\ dCall.fail) => dCall.res.err # Nil

\* the same when the daemon has at least one filter
C26_PingListAllNonEmpty ==
    /\ (Reached(dCall, {"Ping", "ListAll"}) /\ dCall.count > 0) =>
          /\ dCall.res.err = Nil
          /\ dCall.op = "ListAll" => Len(dCall.res.val) = dCall.count
    /\ (dCall.op \in {"Ping", "ListAll"} /\ dCall.fail) => dCall.res.err # Nil

\* the replies by which the daemon refuses or fails a command
ErrorReplies ==
    {<<"Exists">>, <<"Delete", " ", "in", " ", "progress">>,
     <<"Filter", " ", "does", " ", "not", " ", "exist">>,
     <<"Filter", " ", "is", " ", "not", " ", "proxied.", " ", "Close", " ", "it", " ", "first.">>,
     <<"Internal", " ", "Error">>}

\* C27: "Filter does not exist" makes every operation but Drop return an error and Drop
\* succeed; no reply that refuses the command is returned as success except "Filter does
\* not exist" for Drop and "Exists" for Create; an error of the transport is returned as
\* an error by every operation.
C27_ErrorsReachCaller ==
    pPc = "done" =>
        /\ pResp.err => pRes.err # Nil
        /\ (~pResp.err /\ pResp.line = <<"Filter", " ", "does", " ", "not", " ", "exist">>) =>
              ((pRes.err = Nil) <=> (pOp \in DropOps))
        /\ (~pResp.err /\ pResp.line \in ErrorReplies /\ pRes.err = Nil) =>
              \/ pOp \in DropOps
                  /\ pResp.line = <<"Filter", " ", "does", " ", "not", " ", "exist">>
              \/ pOp \in CreateOps /\ pResp.line = <<"Exists">>

\* Clear of a filter the daemon does not have returned an error
C27_Witness ==
    /\ Parsed({"Clear"})
    /\ pResp.line = <<"Filter", " ", "does", " ", "not", " ", "exist">>
    /\ pRes.err = New(pResp.line)

\* the value a sequence of options leaves in a field: that of the last option assigning
\* it, or else the default
LastOption(given, field, default) ==
    LET idx == {i \in DOMAIN given : given[i].f = field}
    IN  IF idx = {} THEN default
        ELSE given[CHOOSE i \in idx : \A j \in idx : j <= i].v

SettingsOf(given) ==
    [hashKeys |-> (LastOption(given, "hashKeys", 0) = 1),
     initialConnections |-> LastOption(given, "initialConnections", 5),
     maxConnections |-> LastOption(given, "maxConnections", 10),
     maxAttempts |-> LastOption(given, "maxAttempts", 3),
     timeout |-> LastOption(given, "timeout", 10)]

\* C28: a client built with no options has hashKeys false, 5 initial and 10 maximum
\* connections, 3 send attempts and a timeout of 10 s; each option overrides its own
\* setting only and a later option overrides an earlier one; evaluating options never
\* changes the shared defaults; the settings of a constructed client never change.
C28_Options ==
    /\ [](/\ oDefault = SettingsOf(<<>>)
          /\ \A i \in DOMAIN nClients : nClients[i].settings = SettingsOf(nClients[i].given))
    /\ [][\A i \in DOMAIN nClients : nClients'[i] = nClients[i]]_vars

\* a second client was built after a first one that was given two options for one setting
C28_Witness ==
    /\ Len(nClients) = 2
    /\ nClients[1].given = <<WithOption("initialConnections", 2),
                             WithOption("initialConnections", 1)>>
    /\ nClients[1].settings.initialConnections = 1
    /\ nClients[2].given = <<>>
    /\ nClients[2].settings.initialConnections = 5

\* C29: right after a successful NewClient the pool holds exactly initialConnections idle,
\* open connections and none is in use; if a dial fails or the capacities are invalid
\* (initial > max, max <= 0, initial < 0) NewClient returns an error and leaves no
\* connection open.
C29_InitialPool ==
    LET want == SettingsOf(oGiven)
        bad == want.initialConnections < 0 \/ want.maxConnections <= 0
               \/ want.initialConnections > want.maxConnections
    IN  /\ nPc = "built" =>
              /\ ~bad /\ ~nDialFailed
              /\ Len(nChan) = want.initialConnections
              /\ Len(nConns) = want.initialConnections
              /\ \A i \in DOMAIN nConns :
                    nConns[i] = "open" /\ Cardinality({j \in DOMAIN nChan : nChan[j] = i}) = 1
        /\ nPc = "failed" => \A i \in DOMAIN nConns : nConns[i] # "open"
        /\ (nPc \in {"fill", "built"}) => ~bad
        /\ nDialFailed => nPc = "failed"

\* the third dial failed after two connections had been opened
C29_Witness ==
    /\ nPc = "failed" /\ nDialFailed
    /\ nConns = <<"closed", "closed">>

\* the caller of command c has returned because its context was done
GaveUp(c) == cpc[c] = "returned" /\ ret[c] \in {"deadline", "canceled"}

\* C30: a deadline or a cancellation only ends the caller's wait: the worker is left as it
\* is, it can always put its result on the channel without blocking, it closes or
\* releases its connection exactly once, and, its calls on the socket returning, it
\* terminates; no worker stays blocked on delivering a result nobody waits for.
C30_WorkerFinishes ==
    /\ [](\A c \in Cmds :
            /\ wpc[c] = "deliver" => ENABLED WDeliver(c)
            /\ (wpc[c] \in {"deliver", "done"} /\ conn[c] # NoConn) => rel[c] # "none")
    /\ [][\A c \in Cmds :
            /\ (cpc[c] = "waiting" /\ GaveUp(c)') => (wpc'[c] = wpc[c] /\ ch'[c] = ch[c])
            /\ rel'[c] # rel[c] =>
                  \/ wpc[c] = "close" /\ rel[c] = "none"
                  \/ wpc'[c] = "get" /\ rel'[c] = "none"]_vars
    /\ \A c \in Cmds : (GaveUp(c) /\ wpc[c] # "done") ~> (wpc[c] = "done")

\* the caller left on its deadline while the worker was reading; the worker has since
\* released the connection and left its result on the channel
C30_Witness ==
    /\ GaveUp(1) /\ ret[1] = "deadline"
    /\ wpc[1] = "done" /\ ch[1] = "nil" /\ rel[1] # "none"

\* ------------------------------------------------------------- claims C31..C37

\* C31: send returns success only if one write of the command line succeeded, for every
\* maxAttempts, zero and negative values included: a send that made no successful write
\* returns an error.
C31_SuccessMeansWritten ==
    (sPc = "done" /\ sRes.res = "ok") => Wrote(sRes.log)

\* the daemon's block response: its START line, data lines that are not its END line,
\* and its END line
BlockResponse(lines) ==
    /\ Len(lines) >= 2
    /\ lines[1].body = <<RESPONSE_START>>
    /\ lines[Len(lines)].body = <<RESPONSE_END>>
    /\ \A i \in 2..(Len(lines) - 1) : lines[i].body # <<RESPONSE_END>>

\* C32: when recv returns successfully for a block response, every line of the response
\* up to and including the daemon's END line has been read, whatever the data lines
\* hold: no line of the response is left unread on the connection.
C32_ConsumesResponse ==
    (rPc = "done" /\ ~rErr /\ BlockResponse(rStream)) => ~HasLine(rIn)

\* the same for blocks none of whose data lines begins with the end marker
C32_ConsumesPlainBlock ==
    (/\ rPc = "done" /\ ~rErr /\ BlockResponse(rStream)
     /\ \A i \in 2..(Len(rStream) - 1) : ~HasPrefix(rStream[i].body, RESPONSE_END))
        => ~HasLine(rIn)

\* C33: the response a command returns to its caller is made of the daemon's reply to
\* the command line this same call wrote on its connection, never of bytes the daemon
\* wrote in reply to an earlier call.
C33_NoCrossTalk ==
    xRet = "ok" => xRead = {xN}

\* the same for calls whose names do not begin with the end marker and whose keys hold
\* no newline or are hashed
C33_NoCrossTalkPlain ==
    xFilters # <<>> =>
      ((/\ xRet = "ok"
        /\ ~xFilters[<<"END", "x">>].exists
        /\ xHash)
          => xRead = {xN})

\* C34: parseBoolList returns a list without error only if every space-separated part
\* of the response is exactly "Yes" or "No"; a response with any other part is an error.
C34_OnlyYesNo ==
    (Parsed(BoolListOps) /\ pRes.err = Nil) =>
        \A i \in DOMAIN Split(pResp.line, " ") :
            Split(pResp.line, " ")[i] \in {<<RESPONSE_YES>>, <<RESPONSE_NO>>}

\* C35: a response that sendCommand returned and the operation's parser rejects leaves
\* the connection as a successful command leaves it: the worker has put it back into
\* the pool, not marked unusable; the caller's return and the parser change nothing of
\* it; and the next command takes that same connection instead of dialling.
C35_RejectionKeepsConnection ==
    /\ []((xCpc = "returned" /\ xRet = "ok") => (xConn = "pooled" /\ ~xUnus))
    /\ [][(xCpc = "waiting" /\ xCpc' = "returned" /\ xRet' = "ok")
             => UNCHANGED <<xConn, xIn, xBy, xUnus, xFilters>>]_vars
    /\ [][(xPc = "get" /\ xPc' = "send" /\ xConn = "pooled")
             => (xConn' = "held" /\ xIn' = xIn)]_vars

\* Set on a filter the daemon does not hold: the reply was read to its end, parseBool
\* rejected it, and the connection is back in the pool with nothing left to read
C35_Witness ==
    /\ xCpc = "returned" /\ xRet = "ok" /\ xOp = "Set"
    /\ xResp.line = RESPONSE_FILTER_NOT_EXIST
    /\ xRes.err # Nil
    /\ xConn = "pooled" /\ xIn = <<>> /\ xRead = {xN}

\* C36: the caller of sendCommand reads the variables it shares with the worker (conn,
\* err, line) only after it has received the worker's result: no step in which the
\* caller reads one of them is taken while the worker may still write it.  The caller
\* reads conn or line in each of its returning steps.
C36_NoUnsynchronizedRead ==
    [][\A c \in Cmds :
         (cpc[c] = "waiting" /\ cpc'[c] = "returned") => wpc[c] = "done"]_vars

\* the same for the returns through the channel only
C36_ChannelReadsSynchronized ==
    [][\A c \in Cmds :
         (cpc[c] = "waiting" /\ cpc'[c] = "returned" /\ ret'[c] \notin CtxErrors)
             => wpc[c] = "done"]_vars

\* C37: once Shutdown has been called, a worker that releases its connection closes it
\* and does not store it back, so the closed pool never holds a connection; when no
\* worker holds a connection any more no connection of the client is open; and an
\* acquire made after Shutdown fails without obtaining a connection.
C37_ShutdownInFlight ==
    /\ [](poolClosed => idle = <<>>)
    /\ []((poolClosed /\ \A c \in Cmds : ~Holding(c)) => LiveConns = {})
    /\ [][\A c \in Cmds :
            (poolClosed /\ wpc[c] = "close" /\ wpc'[c] = "deliver")
                => (conns'[conn[c]] \notin {"new", "open"} /\ rel'[c] # "pooled")]_vars
    /\ [][\A c \in Cmds :
            (poolClosed /\ wpc[c] = "get" /\ wpc'[c] # "get")
                => (werr'[c] = "ErrClosed" /\ conn'[c] = NoConn /\ conns' = conns)]_vars

\* command 1 was in flight when Shutdown was called and succeeded; its worker closed
\* the connection on release; command 2, issued afterwards, got ErrClosed; nothing is
\* open
C37_Witness ==
    /\ poolClosed
    /\ ~afterShutdown[1] /\ werr[1] = "nil" /\ rel[1] = "closedPut" /\ wpc[1] = "done"
    /\ afterShutdown[2] /\ werr[2] = "ErrClosed"
    /\ LiveConns = {}


====
